---- MODULE Spec2Model ----
(***************************************************************************)
(* Room & signaling coordinator of NanoStream, modelled from               *)
(* src/claude-4-5/signaling.js.                                            *)
(*                                                                         *)
(* The state is the three module-level maps (rooms, socketToRoom,          *)
(* messageRateLimits), the socket.io adapter's room membership (joined),   *)
(* and the set of sockets whose disconnect has been processed.  Each       *)
(* socket.on(...) handler is one action.  Two observation variables record *)
(* the event handled last (last) and what it emitted (out); touched is a   *)
(* history variable of the room ids each socket has named.                 *)
(*                                                                         *)
(* now is the value Date.now() returns; the chat rate limit and the chat   *)
(* messages read it.  The other Date.now() values (createdAt, connectedAt, *)
(* the timestamp of system messages) are never read back by the handlers   *)
(* modelled here and are left out of the records.  lastAccepted is a       *)
(* history variable: when each connection's last chat message was stored.  *)
(*                                                                         *)
(* pending holds the handlers that are suspended at an await; applied and  *)
(* observed are history variables of the server with asynchronous handlers *)
(* (src/server.js): the viewer counts its mutations produced and the       *)
(* viewer counts its broadcasts carried.                                   *)
(* streams is the table of active streams of the external store that the   *)
(* server of src/unnamed/part_003 asks through dbQuery.                    *)
(***************************************************************************)
EXTENDS Integers, Sequences, FiniteSets, TLC

VARIABLES rooms, socketToRoom, messageRateLimits, joined, disconnected,
          touched, last, out, now, lastAccepted, pending, applied, observed,
          streams

vars == <<rooms, socketToRoom, messageRateLimits, joined, disconnected,
          touched, last, out, now, lastAccepted, pending, applied, observed,
          streams>>

(***************************************************************************)
(* Bounds and input sets                                                   *)
(***************************************************************************)
\* sockets and room ids of the three specifications below
NumSockets == 2
NumRooms == 2
OneRoomSockets == 3
RelaySockets == 2
\* const MAX_VIEWERS_PER_ROOM = 20, scaled down so that a room fills up
MAX_VIEWERS_PER_ROOM == 2
\* cap on stats.totalViewers, which the code lets grow without bound; above
\* MAX_VIEWERS_PER_ROOM, so that a full room can empty and fill again
MaxAdmissions == 3
\* sockets of the chat specification
ChatSockets == 2
\* const MAX_MESSAGES_PER_ROOM = 100, scaled down so that a log fills up
MAX_MESSAGES_PER_ROOM == 2
\* const MESSAGE_RATE_LIMIT = 500 (milliseconds)
MESSAGE_RATE_LIMIT == 500
\* the clock: Date.now() at start-up and how far and how often it advances;
\* one advance is less than MESSAGE_RATE_LIMIT and two are not
StartTime == 1000
TickMs == 250
MaxTicks == 2
\* substring(0, 500) of addMessage, scaled down, and the longest raw body
\* the 50 most recent messages that a chat history is said to hold, scaled
\* down below MAX_MESSAGES_PER_ROOM as 50 is below 100
HistoryLimit == 1
MaxMessageLength == 4
MaxRawLength == 5
\* system messages the model lets pile up over the cap of the log
MaxSystemBacklog == 2
\* entries of the viewers array of the first-joiner server
MaxViewerEntries == 3
\* sockets of the server with asynchronous handlers, and the viewer
\* mutations of one behaviour
PhpSockets == 2
\* sockets of the server that asks the store before it admits a streamer
DbSockets == 2
MaxApplied == 3

SocketIds == <<"s1", "s2", "s3", "s4", "s5">>
RoomNames == <<"r1", "r2", "r3", "r4">>
SocketsUpTo(n) == {SocketIds[i] : i \in 1..n}
RoomsUpTo(n) == {RoomNames[i] : i \in 1..n}
\* every socket id of the model
Sockets == {SocketIds[i] : i \in 1..Len(SocketIds)}

\* a field the client left out of the event payload (undefined: falsy)
Missing == ""
Falsy(x) == x = Missing

\* the display name each connection claims; two connections share one
ClaimedName(s) == IF s = "s1" THEN "alice" ELSE "bob"
RoomIdInputs(R) == R \cup {Missing}
UsernameInputs(s) == {ClaimedName(s), Missing}
Payloads == {"p1", "p2"}

\* a message body is the sequence of its characters
Chars == {"a", " ", "<", ">"}
RawBodies(n) == UNION {[1..k -> Chars] : k \in 0..n}
\* the bodies of the chat specification: one that is stored and one that is
\* empty after trimming
ChatBodies == {<<"a">>, <<" ">>}

\* JavaScript null / undefined where an object is expected
Null == [null |-> TRUE]
NoRole == "null"
\* new Map()
EmptyMap == [x \in {} |-> x]

(***************************************************************************)
(* Helper functions (signaling.js 53-203)                                  *)
(***************************************************************************)
MapSet(m, k, v) == [x \in DOMAIN m \cup {k} |-> IF x = k THEN v ELSE m[x]]
MapDelete(m, k) == [x \in DOMAIN m \ {k} |-> m[x]]
Max(a, b) == IF a >= b THEN a ELSE b

NewRoom ==
  [streamer |-> Null,
   viewers |-> EmptyMap,
   messages |-> << >>,
   stats |-> [totalViewers |-> 0, peakViewers |-> 0, messagesCount |-> 0]]

createRoom(rs, roomId) == MapSet(rs, roomId, NewRoom)

getOrCreateRoom(rs, roomId) ==
  IF roomId \notin DOMAIN rs THEN createRoom(rs, roomId) ELSE rs

ViewersSize(room) == Cardinality(DOMAIN room.viewers)

\* addStreamer without the check of the streamer slot
addStreamerOverwrite(rs, s2r, roomId, socketId, username) ==
  LET rs1 == getOrCreateRoom(rs, roomId)
  IN [rooms |-> [rs1 EXCEPT ![roomId].streamer =
                    [socketId |-> socketId, username |-> username]],
      socketToRoom |-> MapSet(s2r, socketId, roomId),
      result |-> [success |-> TRUE, role |-> "streamer"]]

\* addStreamer: the maps after the call and the returned result
addStreamer(rs, s2r, roomId, socketId, username) ==
  LET rs1 == getOrCreateRoom(rs, roomId)
      room == rs1[roomId]
  IN IF room.streamer # Null
     THEN [rooms |-> rs1, socketToRoom |-> s2r,
           result |-> [success |-> FALSE,
                       error |-> "Room already has an active streamer",
                       currentStreamer |-> room.streamer.username]]
     ELSE [rooms |-> [rs1 EXCEPT ![roomId].streamer =
                         [socketId |-> socketId, username |-> username]],
           socketToRoom |-> MapSet(s2r, socketId, roomId),
           result |-> [success |-> TRUE, role |-> "streamer"]]

\* addViewer that leaves stats.totalViewers alone
addViewerUncounted(rs, s2r, roomId, socketId, username) ==
  LET rs1 == getOrCreateRoom(rs, roomId)
      room == rs1[roomId]
  IN IF room.streamer = Null
     THEN [rooms |-> rs1, socketToRoom |-> s2r,
           result |-> [success |-> FALSE,
                       error |-> "No active stream in this room",
                       waiting |-> TRUE]]
     ELSE IF ViewersSize(room) >= MAX_VIEWERS_PER_ROOM
     THEN [rooms |-> rs1, socketToRoom |-> s2r,
           result |-> [success |-> FALSE, error |-> "Room is full"]]
     ELSE LET vs == MapSet(room.viewers, socketId, [username |-> username])
              n == Cardinality(DOMAIN vs)
          IN [rooms |-> [rs1 EXCEPT
                 ![roomId].viewers = vs,
                 ![roomId].stats.peakViewers = Max(@, n)],
              socketToRoom |-> MapSet(s2r, socketId, roomId),
              result |-> [success |-> TRUE, role |-> "viewer",
                          viewerCount |-> n]]

\* addViewer that sets peakViewers to the current size
addViewerPeakIsSize(rs, s2r, roomId, socketId, username) ==
  LET rs1 == getOrCreateRoom(rs, roomId)
      room == rs1[roomId]
  IN IF room.streamer = Null
     THEN [rooms |-> rs1, socketToRoom |-> s2r,
           result |-> [success |-> FALSE,
                       error |-> "No active stream in this room",
                       waiting |-> TRUE]]
     ELSE IF ViewersSize(room) >= MAX_VIEWERS_PER_ROOM
     THEN [rooms |-> rs1, socketToRoom |-> s2r,
           result |-> [success |-> FALSE, error |-> "Room is full"]]
     ELSE LET vs == MapSet(room.viewers, socketId, [username |-> username])
              n == Cardinality(DOMAIN vs)
          IN [rooms |-> [rs1 EXCEPT
                 ![roomId].viewers = vs,
                 ![roomId].stats.totalViewers = @ + 1,
                 ![roomId].stats.peakViewers = n],
              socketToRoom |-> MapSet(s2r, socketId, roomId),
              result |-> [success |-> TRUE, role |-> "viewer",
                          viewerCount |-> n]]

\* addViewer with the limit compared by > instead of >=
addViewerOffByOne(rs, s2r, roomId, socketId, username) ==
  LET rs1 == getOrCreateRoom(rs, roomId)
      room == rs1[roomId]
  IN IF room.streamer = Null
     THEN [rooms |-> rs1, socketToRoom |-> s2r,
           result |-> [success |-> FALSE,
                       error |-> "No active stream in this room",
                       waiting |-> TRUE]]
     ELSE IF ViewersSize(room) > MAX_VIEWERS_PER_ROOM
     THEN [rooms |-> rs1, socketToRoom |-> s2r,
           result |-> [success |-> FALSE, error |-> "Room is full"]]
     ELSE LET vs == MapSet(room.viewers, socketId, [username |-> username])
              n == Cardinality(DOMAIN vs)
          IN [rooms |-> [rs1 EXCEPT
                 ![roomId].viewers = vs,
                 ![roomId].stats.totalViewers = @ + 1,
                 ![roomId].stats.peakViewers = Max(@, n)],
              socketToRoom |-> MapSet(s2r, socketId, roomId),
              result |-> [success |-> TRUE, role |-> "viewer",
                          viewerCount |-> n]]

\* addViewer: the maps after the call and the returned result
addViewer(rs, s2r, roomId, socketId, username) ==
  LET rs1 == getOrCreateRoom(rs, roomId)
      room == rs1[roomId]
  IN IF room.streamer = Null
     THEN [rooms |-> rs1, socketToRoom |-> s2r,
           result |-> [success |-> FALSE,
                       error |-> "No active stream in this room",
                       waiting |-> TRUE]]
     ELSE IF ViewersSize(room) >= MAX_VIEWERS_PER_ROOM
     THEN [rooms |-> rs1, socketToRoom |-> s2r,
           result |-> [success |-> FALSE, error |-> "Room is full"]]
     ELSE LET vs == MapSet(room.viewers, socketId, [username |-> username])
              n == Cardinality(DOMAIN vs)
          IN [rooms |-> [rs1 EXCEPT
                 ![roomId].viewers = vs,
                 ![roomId].stats.totalViewers = @ + 1,
                 ![roomId].stats.peakViewers = Max(@, n)],
              socketToRoom |-> MapSet(s2r, socketId, roomId),
              result |-> [success |-> TRUE, role |-> "viewer",
                          viewerCount |-> n]]

\* removeUser that drops the viewers when the streamer leaves
removeUserClearViewers(rs, s2r, mrl, socketId) ==
  LET unchanged == [rooms |-> rs, socketToRoom |-> s2r,
                    messageRateLimits |-> mrl, result |-> Null]
  IN IF socketId \notin DOMAIN s2r \/ Falsy(s2r[socketId]) THEN unchanged
     ELSE LET roomId == s2r[socketId] IN
     IF roomId \notin DOMAIN rs THEN unchanged
     ELSE
     LET room == rs[roomId]
         isStreamer == room.streamer # Null /\ room.streamer.socketId = socketId
         isViewer == ~isStreamer /\ socketId \in DOMAIN room.viewers
         role == IF isStreamer THEN "streamer"
                 ELSE IF isViewer THEN "viewer" ELSE NoRole
         username == IF isStreamer THEN room.streamer.username
                     ELSE IF isViewer THEN room.viewers[socketId].username
                     ELSE NoRole
         room1 == IF isStreamer
                  THEN [room EXCEPT !.streamer = Null, !.viewers = EmptyMap]
                  ELSE IF isViewer
                  THEN [room EXCEPT !.viewers = MapDelete(@, socketId)]
                  ELSE room
         empty == room1.streamer = Null /\ ViewersSize(room1) = 0
     IN [rooms |-> IF empty THEN MapDelete(rs, roomId)
                   ELSE [rs EXCEPT ![roomId] = room1],
         socketToRoom |-> MapDelete(s2r, socketId),
         messageRateLimits |-> MapDelete(mrl, socketId),
         result |-> [roomId |-> roomId, role |-> role, username |-> username,
                     viewerCount |-> ViewersSize(room1)]]

\* removeUser without the clean-up of empty rooms
removeUserKeepRoom(rs, s2r, mrl, socketId) ==
  LET unchanged == [rooms |-> rs, socketToRoom |-> s2r,
                    messageRateLimits |-> mrl, result |-> Null]
  IN IF socketId \notin DOMAIN s2r \/ Falsy(s2r[socketId]) THEN unchanged
     ELSE LET roomId == s2r[socketId] IN
     IF roomId \notin DOMAIN rs THEN unchanged
     ELSE
     LET room == rs[roomId]
         isStreamer == room.streamer # Null /\ room.streamer.socketId = socketId
         isViewer == ~isStreamer /\ socketId \in DOMAIN room.viewers
         room1 == IF isStreamer THEN [room EXCEPT !.streamer = Null]
                  ELSE IF isViewer
                  THEN [room EXCEPT !.viewers = MapDelete(@, socketId)]
                  ELSE room
     IN [rooms |-> [rs EXCEPT ![roomId] = room1],
         socketToRoom |-> MapDelete(s2r, socketId),
         messageRateLimits |-> MapDelete(mrl, socketId),
         result |-> [roomId |-> roomId,
                     role |-> IF isStreamer THEN "streamer"
                              ELSE IF isViewer THEN "viewer" ELSE NoRole,
                     username |-> IF isStreamer THEN room.streamer.username
                                  ELSE IF isViewer
                                  THEN room.viewers[socketId].username
                                  ELSE NoRole,
                     viewerCount |-> ViewersSize(room1)]]

\* removeUser: the maps after the call and the returned userData (or Null)
removeUser(rs, s2r, mrl, socketId) ==
  LET unchanged == [rooms |-> rs, socketToRoom |-> s2r,
                    messageRateLimits |-> mrl, result |-> Null]
  IN IF socketId \notin DOMAIN s2r \/ Falsy(s2r[socketId]) THEN unchanged
     ELSE LET roomId == s2r[socketId] IN
     IF roomId \notin DOMAIN rs THEN unchanged
     ELSE
     LET room == rs[roomId]
         isStreamer == room.streamer # Null /\ room.streamer.socketId = socketId
         isViewer == ~isStreamer /\ socketId \in DOMAIN room.viewers
         role == IF isStreamer THEN "streamer"
                 ELSE IF isViewer THEN "viewer" ELSE NoRole
         username == IF isStreamer THEN room.streamer.username
                     ELSE IF isViewer THEN room.viewers[socketId].username
                     ELSE NoRole
         room1 == IF isStreamer THEN [room EXCEPT !.streamer = Null]
                  ELSE IF isViewer
                  THEN [room EXCEPT !.viewers = MapDelete(@, socketId)]
                  ELSE room
         empty == room1.streamer = Null /\ ViewersSize(room1) = 0
     IN [rooms |-> IF empty THEN MapDelete(rs, roomId)
                   ELSE [rs EXCEPT ![roomId] = room1],
         socketToRoom |-> MapDelete(s2r, socketId),
         messageRateLimits |-> MapDelete(mrl, socketId),
         result |-> [roomId |-> roomId, role |-> role, username |-> username,
                     viewerCount |-> ViewersSize(room1)]]

(***************************************************************************)
(* Chat (signaling.js 212-253)                                             *)
(***************************************************************************)
Min(a, b) == IF a <= b THEN a ELSE b
\* Array.prototype.slice(-n): the last n elements
LastN(seq, n) == SubSeq(seq, Len(seq) - Min(Len(seq), n) + 1, Len(seq))
IsWhitespace(c) == c = " "

RECURSIVE TrimStart(_)
TrimStart(m) ==
  IF m # << >> /\ IsWhitespace(Head(m)) THEN TrimStart(Tail(m)) ELSE m
RECURSIVE TrimEnd(_)
TrimEnd(m) ==
  IF m # << >> /\ IsWhitespace(m[Len(m)])
  THEN TrimEnd(SubSeq(m, 1, Len(m) - 1)) ELSE m
\* String.prototype.trim
Trim(m) == TrimEnd(TrimStart(m))
\* String.prototype.substring(0, n)
Substring0(m, n) == SubSeq(m, 1, Min(Len(m), n))
\* String.prototype.replace(/c/g, r)
RECURSIVE ReplaceAll(_, _, _)
ReplaceAll(m, c, r) ==
  IF m = << >> THEN << >>
  ELSE (IF Head(m) = c THEN r ELSE <<Head(m)>>) \o ReplaceAll(Tail(m), c, r)

EntityLt == <<"&", "l", "t", ";">>
EntityGt == <<"&", "g", "t", ";">>

\* message.trim().substring(0, 500).replace(/</g, '&lt;').replace(/>/g, '&gt;')
sanitize(message) ==
  ReplaceAll(ReplaceAll(Substring0(Trim(message), MaxMessageLength),
                        "<", EntityLt),
             ">", EntityGt)

\* addMessage that evicts the newest message instead of the oldest
addMessagePop(rs, mrl, roomId, socketId, username, message, t) ==
  IF roomId \notin DOMAIN rs
  THEN [rooms |-> rs, messageRateLimits |-> mrl,
        result |-> [success |-> FALSE, error |-> "Room not found"]]
  ELSE
  LET lastMessageTime == IF socketId \in DOMAIN mrl THEN mrl[socketId] ELSE 0
  IN IF t - lastMessageTime < MESSAGE_RATE_LIMIT
     THEN [rooms |-> rs, messageRateLimits |-> mrl,
           result |-> [success |-> FALSE,
                       error |-> "Sending messages too quickly"]]
     ELSE
     LET mrl1 == MapSet(mrl, socketId, t)
         sanitizedMessage == sanitize(message)
     IN IF sanitizedMessage = << >>
        THEN [rooms |-> rs, messageRateLimits |-> mrl1,
              result |-> [success |-> FALSE, error |-> "Empty message"]]
        ELSE
        LET messageObj == [username |-> username,
                           message |-> sanitizedMessage,
                           timestamp |-> t,
                           id |-> <<socketId, t>>]
            pushed == Append(rs[roomId].messages, messageObj)
            kept == IF Len(pushed) > MAX_MESSAGES_PER_ROOM
                    THEN SubSeq(pushed, 1, Len(pushed) - 1) ELSE pushed
        IN [rooms |-> [rs EXCEPT ![roomId].messages = kept,
                                 ![roomId].stats.messagesCount = @ + 1],
            messageRateLimits |-> mrl1,
            result |-> [success |-> TRUE, message |-> messageObj]]

\* addMessage at time t = Date.now(): the maps after the call and the result
addMessage(rs, mrl, roomId, socketId, username, message, t) ==
  IF roomId \notin DOMAIN rs
  THEN [rooms |-> rs, messageRateLimits |-> mrl,
        result |-> [success |-> FALSE, error |-> "Room not found"]]
  ELSE
  LET lastMessageTime == IF socketId \in DOMAIN mrl THEN mrl[socketId] ELSE 0
  IN IF t - lastMessageTime < MESSAGE_RATE_LIMIT
     THEN [rooms |-> rs, messageRateLimits |-> mrl,
           result |-> [success |-> FALSE,
                       error |-> "Sending messages too quickly"]]
     ELSE
     LET mrl1 == MapSet(mrl, socketId, t)
         sanitizedMessage == sanitize(message)
     IN IF sanitizedMessage = << >>
        THEN [rooms |-> rs, messageRateLimits |-> mrl1,
              result |-> [success |-> FALSE, error |-> "Empty message"]]
        ELSE
        LET messageObj == [username |-> username,
                           message |-> sanitizedMessage,
                           timestamp |-> t,
                           id |-> <<socketId, t>>]
            pushed == Append(rs[roomId].messages, messageObj)
            kept == IF Len(pushed) > MAX_MESSAGES_PER_ROOM
                    THEN Tail(pushed) ELSE pushed
        IN [rooms |-> [rs EXCEPT ![roomId].messages = kept,
                                 ![roomId].stats.messagesCount = @ + 1],
            messageRateLimits |-> mrl1,
            result |-> [success |-> TRUE, message |-> messageObj]]

(***************************************************************************)
(* Transport: socket.io rooms and emissions                                *)
(***************************************************************************)
\* the connected sockets in socket.io room x: every socket is in the room
\* named by its own id, and in the rooms it joined with socket.join
InRoom(jn, dc, x) == {t \in Sockets \ dc : t = x \/ x \in jn[t]}

\* socket.emit(ev, data)
Emit(s, ev, data) == [ev |-> ev, to |-> {s}, data |-> data]
\* io.to(x).emit(ev, data)
IoTo(jn, dc, x, ev, data) == [ev |-> ev, to |-> InRoom(jn, dc, x), data |-> data]
\* socket.to(x).emit(ev, data)
SocketTo(jn, dc, s, x, ev, data) ==
  [ev |-> ev, to |-> InRoom(jn, dc, x) \ {s}, data |-> data]

\* history: the room ids a connected socket has named in join-room or
\* start-stream (forgotten when the socket disconnects)
Touch(s, roomId) ==
  IF Falsy(roomId) THEN touched ELSE [touched EXCEPT ![s] = @ \cup {roomId}]

(***************************************************************************)
(* Init                                                                    *)
(***************************************************************************)
Init ==
  /\ rooms = EmptyMap
  /\ socketToRoom = EmptyMap
  /\ messageRateLimits = EmptyMap
  /\ joined = [s \in Sockets |-> {}]
  /\ disconnected = {}
  /\ touched = [s \in Sockets |-> {}]
  /\ last = [op |-> "init"]
  /\ out = << >>
  /\ now = StartTime
  /\ lastAccepted = EmptyMap
  /\ pending = {}
  /\ applied = << >>
  /\ observed = << >>
  /\ streams = EmptyMap

(***************************************************************************)
(* Socket.io event handlers (signaling.js 313-546)                         *)
(***************************************************************************)
SystemMessage(text) == [username |-> "System", message |-> text, system |-> TRUE]

\* join-room that binds the caller to the room while it awaits a stream
JoinRoomBindAwaiting(s, roomId, username) ==
  /\ s \notin disconnected
  /\ touched' = Touch(s, roomId)
  /\ UNCHANGED <<streams, messageRateLimits, disconnected, now, lastAccepted, pending, applied, observed>>
  /\ IF Falsy(roomId) \/ Falsy(username)
     THEN /\ UNCHANGED <<rooms, socketToRoom, joined>>
          /\ last' = [op |-> "join-room", socket |-> s, roomId |-> roomId,
                      username |-> username,
                      result |-> [success |-> FALSE, error |-> "invalid"]]
          /\ out' = <<Emit(s, "error",
                           [message |-> "Room ID and username are required"])>>
     ELSE
     LET rs1 == getOrCreateRoom(rooms, roomId)
         jn1 == [joined EXCEPT ![s] = @ \cup {roomId}]
         room == rs1[roomId]
     IN /\ joined' = jn1
        /\ IF room.streamer = Null
           THEN /\ rooms' = rs1
                /\ socketToRoom' = MapSet(socketToRoom, s, roomId)
                /\ last' = [op |-> "join-room", socket |-> s, roomId |-> roomId,
                            username |-> username,
                            result |-> [success |-> TRUE,
                                        role |-> "awaiting-stream"]]
                /\ out' = <<Emit(s, "role-assigned",
                                 [role |-> "awaiting-stream", roomId |-> roomId])>>
           ELSE LET r == addViewer(rs1, socketToRoom, roomId, s, username)
                    res == r.result
                IN /\ res.success =>
                        r.rooms[roomId].stats.totalViewers <= MaxAdmissions
                   /\ rooms' = r.rooms
                   /\ socketToRoom' = r.socketToRoom
                   /\ last' = [op |-> "join-room", socket |-> s,
                               roomId |-> roomId, username |-> username,
                               result |-> res]
                   /\ out' =
                        IF res.success
                        THEN <<Emit(s, "role-assigned",
                                    [role |-> "viewer", roomId |-> roomId,
                                     streamerName |-> room.streamer.username,
                                     viewerCount |-> res.viewerCount]),
                               Emit(s, "chat-history", room.messages),
                               IoTo(jn1, disconnected, room.streamer.socketId,
                                    "viewer-joined",
                                    [username |-> username,
                                     viewerCount |-> res.viewerCount]),
                               IoTo(jn1, disconnected, roomId,
                                    "viewer-count-update",
                                    [count |-> res.viewerCount]),
                               IoTo(jn1, disconnected, roomId, "chat-message",
                                    SystemMessage(<<username, "joined the stream">>))>>
                        ELSE <<Emit(s, "error", [message |-> res.error])>>

\* socket.on('join-room')
JoinRoom(s, roomId, username) ==
  /\ s \notin disconnected
  /\ touched' = Touch(s, roomId)
  /\ UNCHANGED <<streams, messageRateLimits, disconnected, now, lastAccepted, pending, applied, observed>>
  /\ IF Falsy(roomId) \/ Falsy(username)
     THEN /\ UNCHANGED <<rooms, socketToRoom, joined>>
          /\ last' = [op |-> "join-room", socket |-> s, roomId |-> roomId,
                      username |-> username,
                      result |-> [success |-> FALSE, error |-> "invalid"]]
          /\ out' = <<Emit(s, "error",
                           [message |-> "Room ID and username are required"])>>
     ELSE
     LET rs1 == getOrCreateRoom(rooms, roomId)
         jn1 == [joined EXCEPT ![s] = @ \cup {roomId}]
         room == rs1[roomId]
     IN /\ joined' = jn1
        /\ IF room.streamer = Null
           THEN /\ rooms' = rs1
                /\ UNCHANGED socketToRoom
                /\ last' = [op |-> "join-room", socket |-> s, roomId |-> roomId,
                            username |-> username,
                            result |-> [success |-> TRUE,
                                        role |-> "awaiting-stream"]]
                /\ out' = <<Emit(s, "role-assigned",
                                 [role |-> "awaiting-stream", roomId |-> roomId])>>
           ELSE LET r == addViewer(rs1, socketToRoom, roomId, s, username)
                    res == r.result
                IN /\ res.success =>
                        r.rooms[roomId].stats.totalViewers <= MaxAdmissions
                   /\ rooms' = r.rooms
                   /\ socketToRoom' = r.socketToRoom
                   /\ last' = [op |-> "join-room", socket |-> s,
                               roomId |-> roomId, username |-> username,
                               result |-> res]
                   /\ out' =
                        IF res.success
                        THEN <<Emit(s, "role-assigned",
                                    [role |-> "viewer", roomId |-> roomId,
                                     streamerName |-> room.streamer.username,
                                     viewerCount |-> res.viewerCount]),
                               Emit(s, "chat-history", room.messages),
                               IoTo(jn1, disconnected, room.streamer.socketId,
                                    "viewer-joined",
                                    [username |-> username,
                                     viewerCount |-> res.viewerCount]),
                               IoTo(jn1, disconnected, roomId,
                                    "viewer-count-update",
                                    [count |-> res.viewerCount]),
                               IoTo(jn1, disconnected, roomId, "chat-message",
                                    SystemMessage(<<username, "joined the stream">>))>>
                        ELSE <<Emit(s, "error", [message |-> res.error])>>

\* start-stream that announces a rejection to the room
StartStreamAnnounceError(s, roomId, username) ==
  /\ s \notin disconnected
  /\ touched' = Touch(s, roomId)
  /\ UNCHANGED <<streams, messageRateLimits, joined, disconnected, now, lastAccepted, pending, applied, observed>>
  /\ LET r == addStreamer(rooms, socketToRoom, roomId, s, username)
     IN /\ rooms' = r.rooms
        /\ socketToRoom' = r.socketToRoom
        /\ last' = [op |-> "start-stream", socket |-> s, roomId |-> roomId,
                    username |-> username, result |-> r.result]
        /\ out' =
             IF r.result.success
             THEN <<Emit(s, "stream-started",
                         [role |-> "streamer", roomId |-> roomId]),
                    SocketTo(joined, disconnected, s, roomId, "streamer-ready",
                             [streamerName |-> username, streamerId |-> s]),
                    Emit(s, "chat-history", r.rooms[roomId].messages)>>
             ELSE <<IoTo(joined, disconnected, roomId, "error",
                         [message |-> r.result.error])>>

\* socket.on('start-stream')
StartStream(s, roomId, username) ==
  /\ s \notin disconnected
  /\ touched' = Touch(s, roomId)
  /\ UNCHANGED <<streams, messageRateLimits, joined, disconnected, now, lastAccepted, pending, applied, observed>>
  /\ LET r == addStreamer(rooms, socketToRoom, roomId, s, username)
     IN /\ rooms' = r.rooms
        /\ socketToRoom' = r.socketToRoom
        /\ last' = [op |-> "start-stream", socket |-> s, roomId |-> roomId,
                    username |-> username, result |-> r.result]
        /\ out' =
             IF r.result.success
             THEN <<Emit(s, "stream-started",
                         [role |-> "streamer", roomId |-> roomId]),
                    SocketTo(joined, disconnected, s, roomId, "streamer-ready",
                             [streamerName |-> username, streamerId |-> s]),
                    Emit(s, "chat-history", r.rooms[roomId].messages)>>
             ELSE <<Emit(s, "error", [message |-> r.result.error])>>

\* stop-stream that any connection may send for a room with a streamer
StopStreamAnyone(s, roomId) ==
  /\ s \notin disconnected
  /\ UNCHANGED <<streams, socketToRoom, messageRateLimits, joined, disconnected,
                 touched, now, lastAccepted, pending, applied, observed>>
  /\ LET isStreamer == /\ roomId \in DOMAIN rooms
                       /\ rooms[roomId].streamer # Null
     IN /\ last' = [op |-> "stop-stream", socket |-> s, roomId |-> roomId,
                    result |-> [success |-> isStreamer]]
        /\ IF isStreamer
           THEN /\ rooms' = [rooms EXCEPT ![roomId].streamer = Null]
                /\ out' = <<IoTo(joined, disconnected, roomId, "stream-ended",
                                 [message |-> "The stream has ended"])>>
           ELSE /\ UNCHANGED rooms
                /\ out' = << >>

\* socket.on('stop-stream')
StopStream(s, roomId) ==
  /\ s \notin disconnected
  /\ UNCHANGED <<streams, socketToRoom, messageRateLimits, joined, disconnected,
                 touched, now, lastAccepted, pending, applied, observed>>
  /\ LET isStreamer == /\ roomId \in DOMAIN rooms
                       /\ rooms[roomId].streamer # Null
                       /\ rooms[roomId].streamer.socketId = s
     IN /\ last' = [op |-> "stop-stream", socket |-> s, roomId |-> roomId,
                    result |-> [success |-> isStreamer]]
        /\ IF isStreamer
           THEN /\ rooms' = [rooms EXCEPT ![roomId].streamer = Null]
                /\ out' = <<IoTo(joined, disconnected, roomId, "stream-ended",
                                 [message |-> "The stream has ended"])>>
           ELSE /\ UNCHANGED rooms
                /\ out' = << >>

\* socket.on('disconnect'); socket.io has taken the socket out of its rooms
Disconnect(s) ==
  /\ s \notin disconnected
  /\ touched' = [touched EXCEPT ![s] = {}]
  /\ UNCHANGED <<streams, now, lastAccepted, pending, applied, observed>>
  /\ LET r == removeUser(rooms, socketToRoom, messageRateLimits, s)
         userData == r.result
         dc1 == disconnected \cup {s}
         jn1 == [joined EXCEPT ![s] = {}]
     IN /\ rooms' = r.rooms
        /\ socketToRoom' = r.socketToRoom
        /\ messageRateLimits' = r.messageRateLimits
        /\ disconnected' = dc1
        /\ joined' = jn1
        /\ last' = [op |-> "disconnect", socket |-> s, result |-> userData]
        /\ out' =
             IF userData = Null THEN << >>
             ELSE IF userData.role = "streamer"
             THEN <<IoTo(jn1, dc1, userData.roomId, "stream-ended",
                         [message |-> "The streamer has disconnected"]),
                    IoTo(jn1, dc1, userData.roomId, "chat-message",
                         SystemMessage(<<userData.username, "(streamer) has left">>))>>
             ELSE IF userData.role = "viewer"
             THEN (IF /\ userData.roomId \in DOMAIN r.rooms
                      /\ r.rooms[userData.roomId].streamer # Null
                   THEN <<IoTo(jn1, dc1, r.rooms[userData.roomId].streamer.socketId,
                               "viewer-left",
                               [username |-> userData.username,
                                viewerCount |-> userData.viewerCount])>>
                   ELSE << >>)
                  \o <<IoTo(jn1, dc1, userData.roomId, "viewer-count-update",
                            [count |-> userData.viewerCount]),
                       IoTo(jn1, dc1, userData.roomId, "chat-message",
                            SystemMessage(<<userData.username, "left the stream">>))>>
             ELSE << >>

\* the three relay handlers share one shape: io.to(targetSocketId).emit(...)
Relay(s, kind, payload, targetSocketId) ==
  /\ s \notin disconnected
  /\ UNCHANGED <<streams, rooms, socketToRoom, messageRateLimits, joined, disconnected,
                 touched, now, lastAccepted, pending, applied, observed>>
  /\ last' = [op |-> kind, socket |-> s, target |-> targetSocketId,
              payload |-> payload]
  /\ out' = <<IoTo(joined, disconnected, targetSocketId, kind,
                   [payload |-> payload, from |-> s])>>

\* socket.on('offer')
Offer(s, offer, targetSocketId) == Relay(s, "offer", offer, targetSocketId)
\* socket.on('answer')
Answer(s, answer, targetSocketId) == Relay(s, "answer", answer, targetSocketId)
\* socket.on('ice-candidate')
IceCandidate(s, candidate, targetSocketId) ==
  Relay(s, "ice-candidate", candidate, targetSocketId)

\* chat-message that broadcasts the outcome of a rejected message too
ChatMessageBroadcastAll(s, roomId, username, message) ==
  /\ s \notin disconnected
  /\ UNCHANGED <<streams, socketToRoom, joined, disconnected, touched, now, pending,
                 applied, observed>>
  /\ LET r == addMessage(rooms, messageRateLimits, roomId, s, username,
                         message, now)
     IN /\ rooms' = r.rooms
        /\ messageRateLimits' = r.messageRateLimits
        /\ lastAccepted' = IF r.result.success
                           THEN MapSet(lastAccepted, s, now) ELSE lastAccepted
        /\ last' = [op |-> "chat-message", socket |-> s, roomId |-> roomId,
                    username |-> username, result |-> r.result]
        /\ out' = IF r.result.success
                  THEN <<IoTo(joined, disconnected, roomId, "chat-message",
                              r.result.message)>>
                  ELSE <<IoTo(joined, disconnected, roomId, "chat-message",
                              [message |-> r.result.error])>>

\* socket.on('chat-message')
ChatMessage(s, roomId, username, message) ==
  /\ s \notin disconnected
  /\ UNCHANGED <<streams, socketToRoom, joined, disconnected, touched, now, pending,
                 applied, observed>>
  /\ LET r == addMessage(rooms, messageRateLimits, roomId, s, username,
                         message, now)
     IN /\ rooms' = r.rooms
        /\ messageRateLimits' = r.messageRateLimits
        /\ lastAccepted' = IF r.result.success
                           THEN MapSet(lastAccepted, s, now) ELSE lastAccepted
        /\ last' = [op |-> "chat-message", socket |-> s, roomId |-> roomId,
                    username |-> username, result |-> r.result]
        /\ out' = IF r.result.success
                  THEN <<IoTo(joined, disconnected, roomId, "chat-message",
                              r.result.message)>>
                  ELSE <<Emit(s, "error", [message |-> r.result.error])>>

\* the clock advances between two events
Tick ==
  /\ now + TickMs <= StartTime + MaxTicks * TickMs
  /\ now' = now + TickMs
  /\ last' = [op |-> "tick"]
  /\ out' = << >>
  /\ UNCHANGED <<streams, rooms, socketToRoom, messageRateLimits, joined, disconnected,
                 touched, lastAccepted, pending, applied, observed>>

\* join-room, start-stream, stop-stream and disconnect of the sockets S on
\* the room ids R, every field present
RoomEvents(S, R) ==
  \/ \E s \in S, roomId \in R : JoinRoom(s, roomId, ClaimedName(s))
  \/ \E s \in S, roomId \in R : StartStream(s, roomId, ClaimedName(s))
  \/ \E s \in S, roomId \in R : StopStream(s, roomId)
  \/ \E s \in S : Disconnect(s)

\* join-room with the room id or the username missing
MalformedEvents(S, R) ==
  \E s \in S, roomId \in RoomIdInputs(R) :
    \E username \in UsernameInputs(s) :
      /\ Falsy(roomId) \/ Falsy(username)
      /\ JoinRoom(s, roomId, username)

\* start-stream with the room id or the username missing
MalformedStartStream(S, R) ==
  \E s \in S, roomId \in RoomIdInputs(R) :
    \E username \in UsernameInputs(s) :
      /\ Falsy(roomId) \/ Falsy(username)
      /\ StartStream(s, roomId, username)

\* offer, answer and ice-candidate of the sockets S
RelayEvents(S) ==
  \/ \E s \in S, t \in S, p \in Payloads : Offer(s, p, t)
  \/ \E s \in S, t \in S, p \in Payloads : Answer(s, p, t)
  \/ \E s \in S, t \in S, p \in Payloads : IceCandidate(s, p, t)

\* join-room that names another connection's socket id as the room id (the
\* id is an opaque string the client chooses, and socket ids are sent to
\* peers in streamer-ready, offer and answer)
SocketIdAsRoomId(S) ==
  \E s \in S : \E t \in S \ {s} : JoinRoom(s, t, ClaimedName(s))

\* several rooms
Next == RoomEvents(SocketsUpTo(NumSockets), RoomsUpTo(NumRooms))
Spec == Init /\ [][Next]_vars

\* one room, more sockets than the room admits viewers
NextOneRoom == RoomEvents(SocketsUpTo(OneRoomSockets), RoomsUpTo(1))
SpecOneRoom == Init /\ [][NextOneRoom]_vars

\* one room, with malformed events and the relay handlers
NextRelay ==
  \/ RoomEvents(SocketsUpTo(RelaySockets), RoomsUpTo(1))
  \/ MalformedEvents(SocketsUpTo(RelaySockets), RoomsUpTo(1))
  \/ RelayEvents(SocketsUpTo(RelaySockets))
  \/ SocketIdAsRoomId(SocketsUpTo(RelaySockets))
SpecRelay == Init /\ [][NextRelay]_vars

\* chat-message of the sockets S on the room ids R
ChatEvents(S, R) ==
  \E s \in S, roomId \in R, m \in ChatBodies :
    ChatMessage(s, roomId, ClaimedName(s), m)

\* one room with chat and the clock
NextChat ==
  \/ RoomEvents(SocketsUpTo(ChatSockets), RoomsUpTo(1))
  \/ ChatEvents(SocketsUpTo(ChatSockets), RoomsUpTo(1))
  \/ Tick
SpecChat == Init /\ [][NextChat]_vars

\* the first chat message of a room, over every raw body
NextSanitize ==
  \/ StartStream("s1", "r1", ClaimedName("s1"))
  \/ \E m \in RawBodies(MaxRawLength) :
       /\ "r1" \in DOMAIN rooms
       /\ rooms["r1"].messages = << >>
       /\ ChatMessage("s1", "r1", ClaimedName("s1"), m)
SpecSanitize == Init /\ [][NextSanitize]_vars

\* chat-message with the room id or the username missing
MalformedChat(S, R) ==
  \E s \in S, roomId \in RoomIdInputs(R), m \in ChatBodies :
    \E username \in UsernameInputs(s) :
      /\ Falsy(roomId) \/ Falsy(username)
      /\ ChatMessage(s, roomId, username, m)

\* one room and one instant of the clock, with events that lack a field
\* (chat with a missing field from the first connection only)
NextMalformed ==
  \/ \E s \in SocketsUpTo(ChatSockets) : JoinRoom(s, "r1", ClaimedName(s))
  \/ \E s \in SocketsUpTo(ChatSockets) : StartStream(s, "r1", ClaimedName(s))
  \/ MalformedEvents(SocketsUpTo(ChatSockets), RoomsUpTo(1))
  \/ MalformedStartStream(SocketsUpTo(ChatSockets), RoomsUpTo(1))
  \/ MalformedChat(SocketsUpTo(1), RoomsUpTo(1))
SpecMalformed == Init /\ [][NextMalformed]_vars

\* one room, with malformed join-room and chat at one instant of the clock
NextReject ==
  \/ RoomEvents(SocketsUpTo(ChatSockets), RoomsUpTo(1))
  \/ MalformedEvents(SocketsUpTo(ChatSockets), RoomsUpTo(1))
  \/ ChatEvents(SocketsUpTo(ChatSockets), RoomsUpTo(1))
SpecReject == Init /\ [][NextReject]_vars

(***************************************************************************)
(* The server of src/unnamed/part_000 with the chat module of              *)
(* src/unnamed/part_002 (handleChat).  Its rooms are records {streamerId,  *)
(* streamerUsername, viewers, messages}; the closure variable currentRoom  *)
(* of each connection is kept in socketToRoom.  A streamerId of null is    *)
(* Missing.  The id and timestamp of a chat message (Date.now(),           *)
(* Math.random()) are never read back and are left out.                    *)
(***************************************************************************)
NewLiveRoom ==
  [streamerId |-> Missing, streamerUsername |-> Missing,
   viewers |-> EmptyMap, messages |-> << >>]

\* part_000 socket.on('join-room')
ServerJoinRoom(s, roomId, user) ==
  /\ s \notin disconnected
  /\ UNCHANGED <<streams, messageRateLimits, disconnected, touched, now, lastAccepted, pending, applied, observed>>
  /\ LET rs1 == IF roomId \notin DOMAIN rooms
                THEN MapSet(rooms, roomId, NewLiveRoom) ELSE rooms
         room == rs1[roomId]
         jn1 == [joined EXCEPT ![s] = @ \cup {roomId}]
     IN /\ socketToRoom' = MapSet(socketToRoom, s, roomId)
        /\ joined' = jn1
        /\ IF Falsy(room.streamerId)
           THEN /\ rooms' = rs1
                /\ last' = [op |-> "join-room", socket |-> s, roomId |-> roomId,
                            result |-> [role |-> "streamer"]]
                /\ out' = <<Emit(s, "role-assigned",
                                 [role |-> "streamer",
                                  viewerCount |-> ViewersSize(room),
                                  messages |-> LastN(room.messages,
                                                     HistoryLimit)])>>
           ELSE LET vs == MapSet(room.viewers, s, [username |-> user])
                IN /\ rooms' = [rs1 EXCEPT ![roomId].viewers = vs]
                   /\ last' = [op |-> "join-room", socket |-> s,
                               roomId |-> roomId, result |-> [role |-> "viewer"]]
                   /\ out' = <<Emit(s, "role-assigned",
                                    [role |-> "viewer",
                                     streamerUsername |-> room.streamerUsername,
                                     messages |-> LastN(room.messages,
                                                        HistoryLimit)]),
                               IoTo(jn1, disconnected, room.streamerId,
                                    "viewer-joined",
                                    [viewerId |-> s, username |-> user,
                                     viewerCount |-> Cardinality(DOMAIN vs)])>>

\* part_000 socket.on('streamer-live')
StreamerLive(s, roomId, streamerName) ==
  /\ s \notin disconnected
  /\ UNCHANGED <<streams, socketToRoom, messageRateLimits, joined, disconnected,
                 touched, now, lastAccepted, pending, applied, observed>>
  /\ LET free == roomId \in DOMAIN rooms /\ Falsy(rooms[roomId].streamerId)
     IN /\ last' = [op |-> "streamer-live", socket |-> s, roomId |-> roomId,
                    result |-> [success |-> free]]
        /\ IF free
           THEN /\ rooms' = [rooms EXCEPT ![roomId].streamerId = s,
                                          ![roomId].streamerUsername =
                                             streamerName]
                /\ out' = <<SocketTo(joined, disconnected, s, roomId,
                                     "stream-started",
                                     [streamerUsername |-> streamerName])>>
           ELSE /\ UNCHANGED rooms
                /\ out' = << >>

\* part_002 socket.on('chat-message')
HandleChatMessage(s, roomId, username, message) ==
  /\ s \notin disconnected
  /\ UNCHANGED <<streams, socketToRoom, messageRateLimits, joined, disconnected,
                 touched, now, lastAccepted, pending, applied, observed>>
  /\ LET ok == /\ ~Falsy(roomId) /\ ~Falsy(username) /\ message # << >>
               /\ roomId \in DOMAIN rooms
     IN /\ last' = [op |-> "chat-message", socket |-> s, roomId |-> roomId,
                    result |-> [success |-> ok]]
        /\ IF ok
           THEN LET room == rooms[roomId]
                    chatMessage ==
                      [username |-> username,
                       message |-> Substring0(message, MaxMessageLength),
                       isStreamer |-> s = room.streamerId]
                    pushed == Append(room.messages, chatMessage)
                    kept == IF Len(pushed) > MAX_MESSAGES_PER_ROOM
                            THEN LastN(pushed, MAX_MESSAGES_PER_ROOM)
                            ELSE pushed
                IN /\ rooms' = [rooms EXCEPT ![roomId].messages = kept]
                   /\ out' = <<IoTo(joined, disconnected, roomId,
                                    "chat-message", chatMessage)>>
           ELSE /\ UNCHANGED rooms
                /\ out' = << >>

\* clear-chat without the check of the sender
ClearChatAnyone(s, roomId) ==
  /\ s \notin disconnected
  /\ UNCHANGED <<streams, socketToRoom, messageRateLimits, joined, disconnected,
                 touched, now, lastAccepted, pending, applied, observed>>
  /\ LET allowed == roomId \in DOMAIN rooms
     IN /\ last' = [op |-> "clear-chat", socket |-> s, roomId |-> roomId,
                    result |-> [success |-> allowed,
                                cleared |-> IF allowed
                                            THEN Len(rooms[roomId].messages)
                                            ELSE 0]]
        /\ IF allowed
           THEN /\ rooms' = [rooms EXCEPT ![roomId].messages = << >>]
                /\ out' = <<IoTo(joined, disconnected, roomId, "chat-cleared",
                                 Null)>>
           ELSE /\ UNCHANGED rooms
                /\ out' = << >>

\* part_002 socket.on('clear-chat'); cleared is the number of messages the
\* event has removed
ClearChat(s, roomId) ==
  /\ s \notin disconnected
  /\ UNCHANGED <<streams, socketToRoom, messageRateLimits, joined, disconnected,
                 touched, now, lastAccepted, pending, applied, observed>>
  /\ LET allowed == roomId \in DOMAIN rooms /\ rooms[roomId].streamerId = s
     IN /\ last' = [op |-> "clear-chat", socket |-> s, roomId |-> roomId,
                    result |-> [success |-> allowed,
                                cleared |-> IF allowed
                                            THEN Len(rooms[roomId].messages)
                                            ELSE 0]]
        /\ IF allowed
           THEN /\ rooms' = [rooms EXCEPT ![roomId].messages = << >>]
                /\ out' = <<IoTo(joined, disconnected, roomId, "chat-cleared",
                                 Null)>>
           ELSE /\ UNCHANGED rooms
                /\ out' = << >>

\* part_000 socket.on('disconnect')
ServerDisconnect(s) ==
  /\ s \notin disconnected
  /\ UNCHANGED <<streams, socketToRoom, messageRateLimits, touched, now, lastAccepted, pending, applied, observed>>
  /\ LET dc1 == disconnected \cup {s}
         jn1 == [joined EXCEPT ![s] = {}]
         bound == /\ s \in DOMAIN socketToRoom
                  /\ socketToRoom[s] \in DOMAIN rooms
     IN /\ disconnected' = dc1
        /\ joined' = jn1
        /\ last' = [op |-> "disconnect", socket |-> s]
        /\ IF ~bound
           THEN /\ UNCHANGED rooms
                /\ out' = << >>
           ELSE
           LET currentRoom == socketToRoom[s]
               room == rooms[currentRoom]
               isStreamer == room.streamerId = s
               isViewer == ~isStreamer /\ s \in DOMAIN room.viewers
               room1 == IF isStreamer
                        THEN [room EXCEPT !.streamerId = Missing,
                                          !.streamerUsername = Missing,
                                          !.viewers = EmptyMap]
                        ELSE IF isViewer
                        THEN [room EXCEPT !.viewers = MapDelete(@, s)]
                        ELSE room
               empty == Falsy(room1.streamerId) /\ ViewersSize(room1) = 0
           IN /\ rooms' = IF empty THEN MapDelete(rooms, currentRoom)
                          ELSE [rooms EXCEPT ![currentRoom] = room1]
              /\ out' = IF isStreamer
                        THEN <<IoTo(jn1, dc1, currentRoom, "stream-ended", Null)>>
                        ELSE IF isViewer /\ ~Falsy(room1.streamerId)
                        THEN <<IoTo(jn1, dc1, room1.streamerId, "viewer-left",
                                    [viewerId |-> s,
                                     viewerCount |-> ViewersSize(room1)])>>
                        ELSE << >>

\* part_002 socket.on('system-message'); the log is not cut here
HandleSystemMessage(s, roomId, message) ==
  /\ s \notin disconnected
  /\ UNCHANGED <<streams, socketToRoom, messageRateLimits, joined, disconnected,
                 touched, now, lastAccepted, pending, applied, observed>>
  /\ last' = [op |-> "system-message", socket |-> s, roomId |-> roomId,
              result |-> [success |-> roomId \in DOMAIN rooms]]
  /\ IF roomId \in DOMAIN rooms
     THEN LET systemMessage == [username |-> "System", message |-> message,
                                isSystem |-> TRUE, type |-> "info"]
          IN /\ Len(rooms[roomId].messages) <
                  MAX_MESSAGES_PER_ROOM + MaxSystemBacklog
             /\ rooms' = [rooms EXCEPT
                            ![roomId].messages = Append(@, systemMessage)]
             /\ out' = <<IoTo(joined, disconnected, roomId, "chat-message",
                              systemMessage)>>
     ELSE /\ UNCHANGED rooms
          /\ out' = << >>

\* one room of this server with chat and system messages
NextServerChat ==
  \/ \E s \in SocketsUpTo(ChatSockets) :
       ServerJoinRoom(s, "r1", ClaimedName(s))
  \/ \E s \in SocketsUpTo(ChatSockets) :
       HandleChatMessage(s, "r1", ClaimedName(s), <<"a">>)
  \/ \E s \in SocketsUpTo(ChatSockets) :
       HandleSystemMessage(s, "r1", <<"a">>)
  \/ \E s \in SocketsUpTo(ChatSockets) : ServerDisconnect(s)
SpecServerChat == Init /\ [][NextServerChat]_vars

\* the events of this server for one room
NextClearChat ==
  \/ \E s \in SocketsUpTo(ChatSockets) :
       ServerJoinRoom(s, "r1", ClaimedName(s))
  \/ \E s \in SocketsUpTo(ChatSockets) :
       StreamerLive(s, "r1", ClaimedName(s))
  \/ \E s \in SocketsUpTo(ChatSockets), m \in ChatBodies :
       HandleChatMessage(s, "r1", ClaimedName(s), m)
  \/ \E s \in SocketsUpTo(ChatSockets) : ClearChat(s, "r1")
  \/ \E s \in SocketsUpTo(ChatSockets) : ServerDisconnect(s)
SpecClearChat == Init /\ [][NextClearChat]_vars

(***************************************************************************)
(* The first-joiner server of src/claude-4-5/small/server.js.  rooms maps  *)
(* a room id to {streamer, viewers}, viewers being an array of             *)
(* {socketId, username}; there is no reverse map.  One room is modelled,   *)
(* so findRoomBySocket has one room to look at.                            *)
(***************************************************************************)
NewSmallRoom == [streamer |-> Null, viewers |-> << >>]

getViewerCount(rs, roomId) ==
  IF roomId \notin DOMAIN rs THEN 0 ELSE Len(rs[roomId].viewers)

hasStreamer(rs, roomId) == roomId \in DOMAIN rs /\ rs[roomId].streamer # Null

\* viewers.some(v => v.socketId === socketId)
ViewerIndexes(room, socketId) ==
  {i \in 1..Len(room.viewers) : room.viewers[i].socketId = socketId}

\* the room ids in which the loop of findRoomBySocket finds the socket
findRoomBySocket(rs, socketId) ==
  {roomId \in DOMAIN rs :
     \/ rs[roomId].streamer # Null /\ rs[roomId].streamer.socketId = socketId
     \/ ViewerIndexes(rs[roomId], socketId) # {}}

\* array.splice(i, 1)
Splice(seq, i) == SubSeq(seq, 1, i - 1) \o SubSeq(seq, i + 1, Len(seq))

removeSocketFromRoom(rs, socketId) ==
  IF findRoomBySocket(rs, socketId) = {} THEN [rooms |-> rs, result |-> Null]
  ELSE
  LET roomId == CHOOSE r \in findRoomBySocket(rs, socketId) : TRUE
      room == rs[roomId]
      wasStreamer == room.streamer # Null /\ room.streamer.socketId = socketId
      idx == ViewerIndexes(room, socketId)
      viewerIndex == IF idx = {} THEN -1
                     ELSE CHOOSE i \in idx : \A j \in idx : i <= j
      username == IF wasStreamer THEN room.streamer.username
                  ELSE IF viewerIndex # -1
                  THEN room.viewers[viewerIndex].username
                  ELSE ""
      room1 == IF wasStreamer THEN [room EXCEPT !.streamer = Null]
               ELSE IF viewerIndex # -1
               THEN [room EXCEPT !.viewers = Splice(@, viewerIndex)]
               ELSE room
      empty == room1.streamer = Null /\ Len(room1.viewers) = 0
      rs1 == IF empty THEN MapDelete(rs, roomId)
             ELSE [rs EXCEPT ![roomId] = room1]
  IN [rooms |-> rs1,
      result |-> [roomId |-> roomId, wasStreamer |-> wasStreamer,
                  username |-> username,
                  viewerCount |-> getViewerCount(rs1, roomId)]]

\* small/server.js socket.on('join-room')
SmallJoinRoom(s, roomId, username) ==
  /\ s \notin disconnected
  /\ touched' = Touch(s, roomId)
  /\ UNCHANGED <<streams, socketToRoom, messageRateLimits, disconnected, now,
                 lastAccepted, pending, applied, observed>>
  /\ LET rs1 == IF roomId \notin DOMAIN rooms
                THEN MapSet(rooms, roomId, NewSmallRoom) ELSE rooms
         jn1 == [joined EXCEPT ![s] = @ \cup {roomId}]
         entry == [socketId |-> s, username |-> username]
         role == IF ~hasStreamer(rs1, roomId) THEN "streamer" ELSE "viewer"
         rs2 == IF role = "streamer"
                THEN [rs1 EXCEPT ![roomId].streamer = entry]
                ELSE [rs1 EXCEPT ![roomId].viewers = Append(@, entry)]
         room == rs2[roomId]
     IN /\ Len(room.viewers) <= MaxViewerEntries
        /\ joined' = jn1
        /\ rooms' = rs2
        /\ last' = [op |-> "join-room", socket |-> s, roomId |-> roomId,
                    username |-> username,
                    result |-> [success |-> TRUE, role |-> role]]
        /\ out' =
             <<Emit(s, "role-assigned",
                    [role |-> role, roomId |-> roomId, username |-> username,
                     viewerCount |-> getViewerCount(rs2, roomId),
                     streamerUsername |-> room.streamer.username])>>
             \o (IF role = "viewer"
                 THEN <<IoTo(jn1, disconnected, room.streamer.socketId,
                             "new-viewer",
                             [viewerId |-> s, username |-> username,
                              viewerCount |-> getViewerCount(rs2, roomId)])>>
                 ELSE << >>)
             \o <<IoTo(jn1, disconnected, roomId, "viewer-count-update",
                       [count |-> getViewerCount(rs2, roomId)]),
                  IoTo(jn1, disconnected, roomId, "chat-message",
                       [username |-> "System",
                        message |-> <<username, "joined the",
                                      IF role = "streamer" THEN "stream"
                                      ELSE "chat">>,
                        isSystem |-> TRUE])>>

\* small/server.js socket.on('disconnect')
SmallDisconnect(s) ==
  /\ s \notin disconnected
  /\ touched' = [touched EXCEPT ![s] = {}]
  /\ UNCHANGED <<streams, socketToRoom, messageRateLimits, now, lastAccepted, pending, applied, observed>>
  /\ LET r == removeSocketFromRoom(rooms, s)
         result == r.result
         dc1 == disconnected \cup {s}
         jn1 == [joined EXCEPT ![s] = {}]
     IN /\ rooms' = r.rooms
        /\ disconnected' = dc1
        /\ joined' = jn1
        /\ last' = [op |-> "disconnect", socket |-> s, result |-> result]
        /\ out' =
             IF result = Null THEN << >>
             ELSE IF result.wasStreamer
             THEN <<IoTo(jn1, dc1, result.roomId, "stream-ended",
                         [message |-> "The streamer has disconnected"]),
                    IoTo(jn1, dc1, result.roomId, "chat-message",
                         [username |-> "System",
                          message |-> <<"Stream ended (streamer disconnected)">>,
                          isSystem |-> TRUE])>>
             ELSE <<IoTo(jn1, dc1, result.roomId, "viewer-count-update",
                         [count |-> result.viewerCount]),
                    IoTo(jn1, dc1, result.roomId, "chat-message",
                         [username |-> "System",
                          message |-> <<result.username, "left">>,
                          isSystem |-> TRUE])>>

\* join-room and disconnect of this server on one room
NextSmall ==
  \/ \E s \in SocketsUpTo(OneRoomSockets) :
       SmallJoinRoom(s, "r1", ClaimedName(s))
  \/ \E s \in SocketsUpTo(OneRoomSockets) : SmallDisconnect(s)
SpecSmall == Init /\ [][NextSmall]_vars

(***************************************************************************)
(* The server of src/server.js, whose handlers are async functions that    *)
(* wait for the external store (makePhpRequest).  A room is a Room object  *)
(* {streamerSocketId, viewers}; socket.currentRoom is kept in socketToRoom.*)
(* A handler suspended at an await is a record of pending: its socket, the *)
(* room id, and the Room object its closure holds.  An object that is      *)
(* still in rooms is read there; once it is deleted from rooms nothing     *)
(* can change it any more, and frozen keeps its viewers.size (-1 while the *)
(* object is in rooms).  produced is the viewer count the handler's own    *)
(* mutation produced (-1 when it added no viewer).  The consecutive awaits *)
(* of one handler have nothing between them and are one suspension.        *)
(***************************************************************************)
\* new Room(roomId, userId, socketId, username, title)
Room(streamerSocketId, streamerUsername) ==
  [streamerSocketId |-> streamerSocketId,
   streamerUsername |-> streamerUsername,
   viewers |-> EmptyMap]

\* Room.hasStreamer of the room at roomId, if any
RoomHasStreamer(rs, roomId) ==
  roomId \in DOMAIN rs /\ rs[roomId].streamerSocketId # Missing

\* Room.isStreamer
RoomIsStreamer(rs, roomId, socketId) ==
  roomId \in DOMAIN rs /\ rs[roomId].streamerSocketId = socketId

Continuation(handler, s, roomId, produced) ==
  [handler |-> handler, socket |-> s, roomId |-> roomId, frozen |-> -1,
   produced |-> produced]

Suspended(handler, s) ==
  \E k \in pending : k.handler = handler /\ k.socket = s

\* room.viewers.forEach(... io.to(viewerSocketId).emit('stream-offline'))
StreamOffline(jn, dc, room, text) ==
  IF DOMAIN room.viewers = {} THEN << >>
  ELSE <<[ev |-> "stream-offline",
          to |-> UNION {InRoom(jn, dc, v) : v \in DOMAIN room.viewers},
          data |-> [message |-> text]]>>

\* socket.on('join-room') up to its first await
PhpJoinRoom(s, roomId, isStreamer) ==
  /\ s \notin disconnected
  /\ ~Suspended("join-room", s)
  /\ UNCHANGED <<streams, messageRateLimits, disconnected, touched, now, lastAccepted,
                 observed>>
  /\ LET jn1 == [joined EXCEPT ![s] = @ \cup {roomId}]
     IN /\ joined' = jn1
        /\ socketToRoom' = MapSet(socketToRoom, s, roomId)
        /\ IF isStreamer
           THEN IF RoomHasStreamer(rooms, roomId)
                THEN /\ UNCHANGED <<rooms, pending, applied>>
                     /\ last' = [op |-> "join-room", socket |-> s,
                                 roomId |-> roomId, isStreamer |-> TRUE,
                                 result |-> [success |-> FALSE]]
                     /\ out' = <<Emit(s, "error",
                                      [message |-> "Stream already active in this room"])>>
                ELSE /\ rooms' = MapSet(rooms, roomId, Room(s, ClaimedName(s)))
                     /\ pending' = pending \cup
                          {Continuation("join-room", s, roomId, -1)}
                     /\ UNCHANGED applied
                     /\ last' = [op |-> "join-room", socket |-> s,
                                 roomId |-> roomId, isStreamer |-> TRUE,
                                 result |-> [success |-> TRUE]]
                     /\ out' = <<Emit(s, "joined-as-streamer",
                                      [roomId |-> roomId, viewerCount |-> 0])>>
           ELSE IF ~RoomHasStreamer(rooms, roomId)
                THEN /\ UNCHANGED <<rooms, pending, applied>>
                     /\ last' = [op |-> "join-room", socket |-> s,
                                 roomId |-> roomId, isStreamer |-> FALSE,
                                 result |-> [success |-> FALSE]]
                     /\ out' = <<Emit(s, "stream-offline",
                                      [message |-> "Stream is offline"])>>
                ELSE LET room == [rooms[roomId] EXCEPT !.viewers =
                                    MapSet(@, s, [username |-> ClaimedName(s)])]
                         n == ViewersSize(room)
                     IN /\ Len(applied) < MaxApplied
                        /\ rooms' = [rooms EXCEPT ![roomId] = room]
                        /\ pending' = pending \cup
                             {Continuation("join-room", s, roomId, n)}
                        /\ applied' = Append(applied, n)
                        /\ last' = [op |-> "join-room", socket |-> s,
                                    roomId |-> roomId, isStreamer |-> FALSE,
                                    result |-> [success |-> TRUE]]
                        /\ out' = <<Emit(s, "joined-as-viewer",
                                         [roomId |-> roomId,
                                          streamerUsername |-> room.streamerUsername,
                                          viewerCount |-> n]),
                                    IoTo(jn1, disconnected, room.streamerSocketId,
                                         "viewer-joined",
                                         [viewerId |-> s,
                                          username |-> ClaimedName(s),
                                          viewerCount |-> n])>>

\* the rest of join-room, after makePhpRequest returned: chat-history if the
\* store answered, then viewer-count-update with room.getViewerCount()
PhpJoinRoomResume(k, stored) ==
  /\ k \in pending
  /\ k.handler = "join-room"
  /\ UNCHANGED <<streams, rooms, socketToRoom, messageRateLimits, joined, disconnected,
                 touched, now, lastAccepted, applied>>
  /\ LET n == IF k.frozen # -1 THEN k.frozen
              ELSE ViewersSize(rooms[k.roomId])
     IN /\ pending' = pending \ {k}
        /\ observed' = IF k.produced # -1 THEN Append(observed, n)
                       ELSE observed
        /\ last' = [op |-> "join-room-resumed", socket |-> k.socket,
                    roomId |-> k.roomId, produced |-> k.produced,
                    result |-> [success |-> TRUE, viewerCount |-> n]]
        /\ out' = (IF stored
                   THEN <<[ev |-> "chat-history",
                           to |-> {k.socket} \ disconnected,
                           data |-> [messages |-> << >>]]>>
                   ELSE << >>)
                  \o <<IoTo(joined, disconnected, k.roomId,
                            "viewer-count-update", [viewerCount |-> n])>>

\* socket.on('disconnect') up to its await
PhpDisconnect(s) ==
  /\ s \notin disconnected
  /\ UNCHANGED <<streams, socketToRoom, messageRateLimits, now, lastAccepted>>
  /\ touched' = [touched EXCEPT ![s] = {}]
  /\ LET dc1 == disconnected \cup {s}
         jn1 == [joined EXCEPT ![s] = {}]
         bound == /\ s \in DOMAIN socketToRoom
                  /\ ~Falsy(socketToRoom[s])
                  /\ socketToRoom[s] \in DOMAIN rooms
     IN /\ disconnected' = dc1
        /\ joined' = jn1
        /\ IF ~bound
           THEN /\ UNCHANGED <<rooms, pending, applied, observed>>
                /\ last' = [op |-> "disconnect", socket |-> s,
                            result |-> Null]
                /\ out' = << >>
           ELSE
           LET roomId == socketToRoom[s]
               room == rooms[roomId]
           IN IF RoomIsStreamer(rooms, roomId, s)
              THEN /\ UNCHANGED <<rooms, applied, observed>>
                   /\ pending' = pending \cup
                        {Continuation("disconnect", s, roomId, -1)}
                   /\ last' = [op |-> "disconnect", socket |-> s,
                               result |-> [roomId |-> roomId,
                                           role |-> "streamer"]]
                   /\ out' = <<IoTo(jn1, dc1, roomId, "stream-ended",
                                    [message |-> "Stream has ended"])>>
                             \o StreamOffline(jn1, dc1, room,
                                              "Streamer has disconnected")
              ELSE
              LET wasViewer == s \in DOMAIN room.viewers
                  room1 == [room EXCEPT !.viewers = MapDelete(@, s)]
                  n == ViewersSize(room1)
              IN /\ wasViewer => Len(applied) < MaxApplied
                 /\ rooms' = [rooms EXCEPT ![roomId] = room1]
                 /\ UNCHANGED pending
                 /\ applied' = IF wasViewer THEN Append(applied, n)
                               ELSE applied
                 /\ observed' = IF wasViewer THEN Append(observed, n)
                                ELSE observed
                 /\ last' = [op |-> "disconnect", socket |-> s,
                             result |-> [roomId |-> roomId,
                                         role |-> IF wasViewer THEN "viewer"
                                                  ELSE NoRole]]
                 /\ out' = <<IoTo(jn1, dc1, roomId, "viewer-count-update",
                                  [viewerCount |-> n])>>
                           \o (IF ~Falsy(room1.streamerSocketId)
                               THEN <<IoTo(jn1, dc1, room1.streamerSocketId,
                                           "viewer-left",
                                           [viewerSocketId |-> s,
                                            viewerCount |-> n])>>
                               ELSE << >>)

\* socket.on('end-stream') up to its await
PhpEndStream(s, roomId) ==
  /\ s \notin disconnected
  /\ ~Suspended("end-stream", s)
  /\ UNCHANGED <<streams, rooms, socketToRoom, messageRateLimits, joined, disconnected,
                 touched, now, lastAccepted, applied, observed>>
  /\ IF ~RoomIsStreamer(rooms, roomId, s)
     THEN /\ UNCHANGED pending
          /\ last' = [op |-> "end-stream", socket |-> s, roomId |-> roomId,
                      result |-> [success |-> FALSE]]
          /\ out' = <<Emit(s, "error",
                           [message |-> "Only streamer can end stream"])>>
     ELSE /\ pending' = pending \cup
               {Continuation("end-stream", s, roomId, -1)}
          /\ last' = [op |-> "end-stream", socket |-> s, roomId |-> roomId,
                      result |-> [success |-> TRUE]]
          /\ out' = <<IoTo(joined, disconnected, roomId, "stream-ended",
                           [message |-> "Stream has ended"])>>
                    \o StreamOffline(joined, disconnected, rooms[roomId],
                                     "Stream has ended")

\* the rest of disconnect (streamer) and of end-stream, after
\* makePhpRequest('endStream') returned: rooms.delete(roomId)
PhpEndStreamResume(k) ==
  /\ k \in pending
  /\ k.handler \in {"disconnect", "end-stream"}
  /\ UNCHANGED <<streams, messageRateLimits, disconnected, touched, now, lastAccepted,
                 applied, observed>>
  /\ LET n == IF k.roomId \in DOMAIN rooms THEN ViewersSize(rooms[k.roomId])
              ELSE -1
         freeze(j) == IF j.roomId = k.roomId /\ j.frozen = -1
                      THEN [j EXCEPT !.frozen = n] ELSE j
     IN /\ rooms' = MapDelete(rooms, k.roomId)
        /\ pending' = {freeze(j) : j \in pending \ {k}}
        /\ IF k.handler = "end-stream"
           THEN /\ joined' = [joined EXCEPT ![k.socket] = @ \ {k.roomId}]
                /\ socketToRoom' = MapSet(socketToRoom, k.socket, Missing)
           ELSE UNCHANGED <<joined, socketToRoom>>
        /\ last' = [op |-> "stream-ended-resumed", socket |-> k.socket,
                    roomId |-> k.roomId, result |-> [success |-> TRUE]]
        /\ out' = << >>

\* one room of this server
NextPhp ==
  \/ \E s \in SocketsUpTo(PhpSockets), isStreamer \in BOOLEAN :
       PhpJoinRoom(s, "r1", isStreamer)
  \/ \E k \in pending, stored \in BOOLEAN : PhpJoinRoomResume(k, stored)
  \/ \E s \in SocketsUpTo(PhpSockets) : PhpDisconnect(s)
  \/ \E s \in SocketsUpTo(PhpSockets) : PhpEndStream(s, "r1")
  \/ \E k \in pending : PhpEndStreamResume(k)
SpecPhp == Init /\ [][NextPhp]_vars

(***************************************************************************)
(* The server of src/unnamed/part_003, whose handlers wait for the         *)
(* external store through dbQuery.  A room is {streamer, viewers,          *)
(* streamActive}, viewers an array of socket ids.  Every connection is     *)
(* logged in as a user of its own, whose id is written like the socket id  *)
(* (socketToUser, userSockets).  The store is not part of the sources: it  *)
(* is modelled as a table of the active stream of each room, which         *)
(* checkStreamActive reports, startStream sets and stopStream clears; a    *)
(* request takes effect in the store when its answer arrives.  A handler   *)
(* that reads rooms[roomId] after the room was deleted throws a TypeError  *)
(* and ends there.                                                         *)
(***************************************************************************)
NewDbRoom == [streamer |-> Missing, viewers |-> << >>, streamActive |-> FALSE]

\* socketToUser[socket.id].userId
UserId(s) == s

\* userSockets[userId]: deleted at the end of the disconnect handler
UserSockets(userId) ==
  IF userId \notin disconnected
     \/ \E k \in pending : k.handler = "disconnect" /\ k.socket = userId
  THEN userId ELSE Missing

\* the answer of dbQuery('checkStreamActive', {roomId})
checkStreamActive(roomId) ==
  IF roomId \in DOMAIN streams
  THEN [success |-> TRUE, active |-> TRUE, userId |-> streams[roomId]]
  ELSE [success |-> TRUE, active |-> FALSE, userId |-> Missing]

\* array.filter(v => v !== socketId)
Without(seq, socketId) == SelectSeq(seq, LAMBDA v : v # socketId)

Includes(seq, x) == \E i \in 1..Len(seq) : seq[i] = x

DbContinuation(handler, stage, s, roomId, isStreamer) ==
  [handler |-> handler, stage |-> stage, socket |-> s, roomId |-> roomId,
   isStreamer |-> isStreamer]

\* io.sockets.sockets.get(id).emit(ev, data), if the socket is connected
ToSocket(dc, id, ev, data) ==
  IF id \in dc THEN << >> ELSE <<[ev |-> ev, to |-> {id}, data |-> data]>>

\* updateViewerCount(roomId)
updateViewerCount(rs, jn, dc, roomId) ==
  IF roomId \notin DOMAIN rs THEN << >>
  ELSE <<IoTo(jn, dc, roomId, "viewer-count",
              [count |-> Len(rs[roomId].viewers)])>>

\* viewers.forEach(viewerId => io.sockets.sockets.get(viewerId).emit('stream-ended'))
StreamEndedToViewers(dc, room) ==
  IF {room.viewers[i] : i \in 1..Len(room.viewers)} \ dc = {} THEN << >>
  ELSE <<[ev |-> "stream-ended",
          to |-> {room.viewers[i] : i \in 1..Len(room.viewers)} \ dc,
          data |-> Null]>>

\* if (!rooms[roomId].streamer && rooms[roomId].viewers.length === 0) delete
DeleteIfEmpty(rs, roomId) ==
  IF rs[roomId].streamer = Missing /\ Len(rs[roomId].viewers) = 0
  THEN MapDelete(rs, roomId) ELSE rs

\* socket.on('join-room') up to the await of checkStreamActive
DbJoinRoom(s, roomId) ==
  /\ s \notin disconnected
  /\ ~Suspended("join-room", s)
  /\ UNCHANGED <<streams, messageRateLimits, disconnected, now, lastAccepted,
                 applied, observed>>
  /\ touched' = Touch(s, roomId)
  /\ joined' = [joined EXCEPT ![s] = @ \cup {roomId}]
  /\ socketToRoom' = MapSet(socketToRoom, s, roomId)
  /\ rooms' = IF roomId \in DOMAIN rooms THEN rooms
              ELSE MapSet(rooms, roomId, NewDbRoom)
  /\ pending' = pending \cup
       {DbContinuation("join-room", "check", s, roomId, FALSE)}
  /\ last' = [op |-> "join-room", socket |-> s, roomId |-> roomId,
              result |-> [success |-> TRUE]]
  /\ out' = << >>

\* join-room from the answer of checkStreamActive to the await of
\* getChatHistory
DbJoinRoomChecked(k) ==
  /\ k \in pending
  /\ k.handler = "join-room" /\ k.stage = "check"
  /\ UNCHANGED <<streams, socketToRoom, messageRateLimits, joined,
                 disconnected, touched, now, lastAccepted, applied, observed>>
  /\ IF k.roomId \notin DOMAIN rooms
     THEN /\ UNCHANGED rooms
          /\ pending' = pending \ {k}
          /\ last' = [op |-> "join-room-checked", socket |-> k.socket,
                      roomId |-> k.roomId,
                      result |-> [success |-> FALSE, error |-> "TypeError"]]
          /\ out' = << >>
     ELSE
     LET streamCheck == checkStreamActive(k.roomId)
         room == rooms[k.roomId]
         streamerSocketId == UserSockets(streamCheck.userId)
         room1 == IF streamCheck.active
                  THEN [room EXCEPT
                          !.streamActive = TRUE,
                          !.streamer = IF @ = Missing /\ streamerSocketId # Missing
                                       THEN streamerSocketId ELSE @]
                  ELSE room
         isStreamer == room1.streamer = k.socket
         room2 == IF ~isStreamer /\ ~Includes(room1.viewers, k.socket)
                  THEN [room1 EXCEPT !.viewers = Append(@, k.socket)]
                  ELSE room1
     IN /\ rooms' = [rooms EXCEPT ![k.roomId] = room2]
        /\ pending' = (pending \ {k}) \cup
             {DbContinuation("join-room", "history", k.socket, k.roomId,
                             isStreamer)}
        /\ last' = [op |-> "join-room-checked", socket |-> k.socket,
                    roomId |-> k.roomId,
                    result |-> [success |-> TRUE,
                                role |-> IF isStreamer THEN "streamer"
                                         ELSE "viewer"]]
        /\ out' = ToSocket(disconnected, k.socket, "room-joined",
                           [roomId |-> k.roomId,
                            role |-> IF isStreamer THEN "streamer"
                                     ELSE "viewer",
                            streamActive |-> room2.streamActive])

\* the rest of join-room, after the answer of getChatHistory
DbJoinRoomResume(k, stored) ==
  /\ k \in pending
  /\ k.handler = "join-room" /\ k.stage = "history"
  /\ UNCHANGED <<streams, rooms, socketToRoom, messageRateLimits, joined,
                 disconnected, touched, now, lastAccepted, applied, observed>>
  /\ pending' = pending \ {k}
  /\ last' = [op |-> "join-room-resumed", socket |-> k.socket,
              roomId |-> k.roomId,
              result |-> [success |-> k.roomId \in DOMAIN rooms]]
  /\ out' = (IF stored
             THEN ToSocket(disconnected, k.socket, "chat-history",
                           [messages |-> << >>])
             ELSE << >>)
            \o (IF k.roomId \notin DOMAIN rooms THEN << >>
                ELSE (IF /\ rooms[k.roomId].streamer # Missing
                         /\ ~k.isStreamer
                         /\ rooms[k.roomId].streamActive
                      THEN ToSocket(disconnected, rooms[k.roomId].streamer,
                                    "new-viewer", [viewerId |-> k.socket])
                      ELSE << >>)
                     \o updateViewerCount(rooms, joined, disconnected,
                                          k.roomId))

\* socket.on('start-stream') up to the await of checkStreamActive
DbStartStream(s, roomId) ==
  /\ s \notin disconnected
  /\ ~Suspended("start-stream", s)
  /\ UNCHANGED <<streams, socketToRoom, messageRateLimits, joined,
                 disconnected, now, lastAccepted, applied, observed>>
  /\ touched' = Touch(s, roomId)
  /\ rooms' = IF roomId \in DOMAIN rooms THEN rooms
              ELSE MapSet(rooms, roomId, NewDbRoom)
  /\ pending' = pending \cup
       {DbContinuation("start-stream", "check", s, roomId, FALSE)}
  /\ last' = [op |-> "start-stream", socket |-> s, roomId |-> roomId,
              result |-> [success |-> TRUE]]
  /\ out' = << >>

\* start-stream from the answer of checkStreamActive to the await of
\* startStream
DbStartStreamChecked(k) ==
  /\ k \in pending
  /\ k.handler = "start-stream" /\ k.stage = "check"
  /\ UNCHANGED <<streams, socketToRoom, messageRateLimits, joined,
                 disconnected, touched, now, lastAccepted, applied, observed>>
  /\ LET streamCheck == checkStreamActive(k.roomId)
     IN IF streamCheck.active /\ streamCheck.userId # UserId(k.socket)
        THEN /\ UNCHANGED rooms
             /\ pending' = pending \ {k}
             /\ last' = [op |-> "start-stream-checked", socket |-> k.socket,
                         roomId |-> k.roomId,
                         result |-> [success |-> FALSE,
                                     error |-> "Stream already active in this room"]]
             /\ out' = ToSocket(disconnected, k.socket, "stream-error",
                                [error |-> "Stream already active in this room"])
        ELSE IF k.roomId \notin DOMAIN rooms
        THEN /\ UNCHANGED rooms
             /\ pending' = pending \ {k}
             /\ last' = [op |-> "start-stream-checked", socket |-> k.socket,
                         roomId |-> k.roomId,
                         result |-> [success |-> FALSE, error |-> "TypeError"]]
             /\ out' = << >>
        ELSE /\ rooms' = [rooms EXCEPT
                            ![k.roomId].streamer = k.socket,
                            ![k.roomId].streamActive = TRUE,
                            ![k.roomId].viewers = Without(@, k.socket)]
             /\ pending' = (pending \ {k}) \cup
                  {DbContinuation("start-stream", "start", k.socket,
                                  k.roomId, TRUE)}
             /\ last' = [op |-> "start-stream-checked", socket |-> k.socket,
                         roomId |-> k.roomId, result |-> [success |-> TRUE]]
             /\ out' = << >>

\* the rest of start-stream, after the answer of startStream
DbStartStreamResume(k, ok) ==
  /\ k \in pending
  /\ k.handler = "start-stream" /\ k.stage = "start"
  /\ UNCHANGED <<rooms, socketToRoom, messageRateLimits, joined, disconnected,
                 touched, now, lastAccepted, applied, observed>>
  /\ pending' = pending \ {k}
  /\ streams' = IF ok THEN MapSet(streams, k.roomId, UserId(k.socket))
                ELSE streams
  /\ last' = [op |-> "start-stream-resumed", socket |-> k.socket,
              roomId |-> k.roomId, result |-> [success |-> ok]]
  /\ out' = IF ok
            THEN ToSocket(disconnected, k.socket, "stream-started",
                          [roomId |-> k.roomId])
                 \o <<IoTo(joined, disconnected, k.roomId,
                           "stream-status-changed",
                           [active |-> TRUE, roomId |-> k.roomId])>>
                 \o updateViewerCount(rooms, joined, disconnected, k.roomId)
            ELSE ToSocket(disconnected, k.socket, "stream-error",
                          [error |-> "Failed to start stream"])

\* socket.on('stop-stream') up to the await of stopStream
DbStopStream(s, roomId) ==
  /\ s \notin disconnected
  /\ ~Suspended("stop-stream", s)
  /\ UNCHANGED <<streams, socketToRoom, messageRateLimits, joined,
                 disconnected, touched, now, lastAccepted, applied, observed>>
  /\ out' = << >>
  /\ IF roomId \in DOMAIN rooms /\ rooms[roomId].streamer = s
     THEN /\ rooms' = [rooms EXCEPT ![roomId].streamActive = FALSE]
          /\ pending' = pending \cup
               {DbContinuation("stop-stream", "stop", s, roomId, TRUE)}
          /\ last' = [op |-> "stop-stream", socket |-> s, roomId |-> roomId,
                      result |-> [success |-> TRUE]]
     ELSE /\ UNCHANGED <<rooms, pending>>
          /\ last' = [op |-> "stop-stream", socket |-> s, roomId |-> roomId,
                      result |-> [success |-> FALSE]]

\* the rest of stop-stream, after the answer of stopStream
DbStopStreamResume(k) ==
  /\ k \in pending
  /\ k.handler = "stop-stream"
  /\ UNCHANGED <<rooms, socketToRoom, messageRateLimits, joined, disconnected,
                 touched, now, lastAccepted, applied, observed>>
  /\ pending' = pending \ {k}
  /\ streams' = MapDelete(streams, k.roomId)
  /\ last' = [op |-> "stop-stream-resumed", socket |-> k.socket,
              roomId |-> k.roomId,
              result |-> [success |-> k.roomId \in DOMAIN rooms]]
  /\ out' = <<IoTo(joined, disconnected, k.roomId, "stream-status-changed",
                   [active |-> FALSE, roomId |-> k.roomId])>>
            \o (IF k.roomId \notin DOMAIN rooms THEN << >>
                ELSE StreamEndedToViewers(disconnected, rooms[k.roomId])
                     \o updateViewerCount(rooms, joined, disconnected,
                                          k.roomId))

\* socket.on('disconnect'): all of it for a viewer, up to the await of
\* stopStream for the streamer
DbDisconnect(s) ==
  /\ s \notin disconnected
  /\ UNCHANGED <<streams, messageRateLimits, now, lastAccepted, applied,
                 observed>>
  /\ touched' = [touched EXCEPT ![s] = {}]
  /\ LET dc1 == disconnected \cup {s}
         jn1 == [joined EXCEPT ![s] = {}]
         bound == /\ s \in DOMAIN socketToRoom
                  /\ ~Falsy(socketToRoom[s])
                  /\ socketToRoom[s] \in DOMAIN rooms
     IN /\ disconnected' = dc1
        /\ joined' = jn1
        /\ IF ~bound
           THEN /\ UNCHANGED <<rooms, pending>>
                /\ socketToRoom' = MapDelete(socketToRoom, s)
                /\ last' = [op |-> "disconnect", socket |-> s,
                            result |-> Null]
                /\ out' = << >>
           ELSE
           LET roomId == socketToRoom[s]
               room == rooms[roomId]
           IN IF room.streamer = s
              THEN /\ UNCHANGED <<rooms, socketToRoom>>
                   /\ pending' = pending \cup
                        {DbContinuation("disconnect", "stop", s, roomId, TRUE)}
                   /\ last' = [op |-> "disconnect", socket |-> s,
                               result |-> [roomId |-> roomId,
                                           role |-> "streamer"]]
                   /\ out' = << >>
              ELSE
              LET rs1 == [rooms EXCEPT ![roomId].viewers = Without(@, s)]
              IN /\ rooms' = DeleteIfEmpty(rs1, roomId)
                 /\ UNCHANGED pending
                 /\ socketToRoom' = MapDelete(socketToRoom, s)
                 /\ last' = [op |-> "disconnect", socket |-> s,
                             result |-> [roomId |-> roomId,
                                         role |-> "viewer"]]
                 /\ out' = (IF room.streamer # Missing
                            THEN ToSocket(dc1, room.streamer, "viewer-left",
                                          [viewerId |-> s])
                            ELSE << >>)
                           \o updateViewerCount(rs1, jn1, dc1, roomId)

\* the rest of the streamer's disconnect, after the answer of stopStream
DbDisconnectResume(k) ==
  /\ k \in pending
  /\ k.handler = "disconnect"
  /\ UNCHANGED <<messageRateLimits, joined, disconnected, touched, now,
                 lastAccepted, applied, observed>>
  /\ pending' = pending \ {k}
  /\ streams' = MapDelete(streams, k.roomId)
  /\ IF k.roomId \notin DOMAIN rooms
     THEN /\ UNCHANGED <<rooms, socketToRoom>>
          /\ last' = [op |-> "disconnect-resumed", socket |-> k.socket,
                      roomId |-> k.roomId,
                      result |-> [success |-> FALSE, error |-> "TypeError"]]
          /\ out' = << >>
     ELSE
     LET rs1 == [rooms EXCEPT ![k.roomId].streamActive = FALSE,
                              ![k.roomId].streamer = Missing]
     IN /\ rooms' = DeleteIfEmpty(rs1, k.roomId)
        /\ socketToRoom' = MapDelete(socketToRoom, k.socket)
        /\ last' = [op |-> "disconnect-resumed", socket |-> k.socket,
                    roomId |-> k.roomId, result |-> [success |-> TRUE]]
        /\ out' = <<IoTo(joined, disconnected, k.roomId,
                         "stream-status-changed",
                         [active |-> FALSE, roomId |-> k.roomId])>>
                  \o StreamEndedToViewers(disconnected, rooms[k.roomId])
                  \o updateViewerCount(rs1, joined, disconnected, k.roomId)

\* one room of this server
NextDb ==
  \/ \E s \in SocketsUpTo(DbSockets) : DbJoinRoom(s, "r1")
  \/ \E k \in pending : DbJoinRoomChecked(k)
  \/ \E k \in pending, stored \in BOOLEAN : DbJoinRoomResume(k, stored)
  \/ \E s \in SocketsUpTo(DbSockets) : DbStartStream(s, "r1")
  \/ \E k \in pending : DbStartStreamChecked(k)
  \/ \E k \in pending, ok \in BOOLEAN : DbStartStreamResume(k, ok)
  \/ \E s \in SocketsUpTo(DbSockets) : DbStopStream(s, "r1")
  \/ \E k \in pending : DbStopStreamResume(k)
  \/ \E s \in SocketsUpTo(DbSockets) : DbDisconnect(s)
  \/ \E k \in pending : DbDisconnectResume(k)
SpecDb == Init /\ [][NextDb]_vars

(***************************************************************************)
(* Roles                                                                   *)
(***************************************************************************)
IsStreamer(s, r) ==
  /\ r \in DOMAIN rooms
  /\ rooms[r].streamer # Null
  /\ rooms[r].streamer.socketId = s
IsViewer(s, r) == r \in DOMAIN rooms /\ s \in DOMAIN rooms[r].viewers
IsMember(s, r) == IsStreamer(s, r) \/ IsViewer(s, r)
RoomsOf(s) == {r \in DOMAIN rooms : IsMember(s, r)}
IsEmpty(room) == room.streamer = Null /\ ViewersSize(room) = 0
\* the sockets an emission was delivered to
Delivered(ev) == UNION {out[i].to : i \in {j \in 1..Len(out) : out[j].ev = ev}}

(***************************************************************************)
(* C1  At-most-one-streamer (events on one room).  A start-stream on a     *)
(* room whose streamer slot is occupied is rejected with a result that     *)
(* names the current streamer and leaves rooms (slot, viewers) and         *)
(* socketToRoom unchanged; a start-stream on an empty slot is accepted and *)
(* fills it with the caller; a stop-stream by the current streamer and the *)
(* disconnect of the current streamer empty the slot, so that the next     *)
(* start-stream is accepted.                                               *)
(***************************************************************************)
C1_Step ==
  /\ last'.op = "start-stream" =>
       LET r == last'.roomId
           occupied == r \in DOMAIN rooms /\ rooms[r].streamer # Null
       IN IF occupied
          THEN /\ ~last'.result.success
               /\ last'.result.error = "Room already has an active streamer"
               /\ last'.result.currentStreamer = rooms[r].streamer.username
               /\ rooms' = rooms
               /\ socketToRoom' = socketToRoom
          ELSE /\ last'.result.success
               /\ rooms'[r].streamer.socketId = last'.socket
  /\ (last'.op = "stop-stream" /\ IsStreamer(last'.socket, last'.roomId)) =>
       rooms'[last'.roomId].streamer = Null
  /\ last'.op = "disconnect" =>
       \A r \in DOMAIN rooms :
         IsStreamer(last'.socket, r) =>
           r \notin DOMAIN rooms' \/ rooms'[r].streamer = Null
C1_AtMostOneStreamer == [][C1_Step]_vars

\* a start-stream was rejected, naming a streamer other than the caller
C1_Witness ==
  /\ last.op = "start-stream"
  /\ ~last.result.success
  /\ IsStreamer("s1", last.roomId)
  /\ last.socket = "s2"
  /\ last.result.currentStreamer = ClaimedName("s1")

(***************************************************************************)
(* C2  Disjointness.  No connection id is both the streamer of a room and  *)
(* a key of that room's viewers (so a viewer that claims the streamer slot *)
(* has to be removed from viewers by the claim).                           *)
(***************************************************************************)
C2_Disjoint ==
  \A r \in DOMAIN rooms :
    rooms[r].streamer # Null =>
      rooms[r].streamer.socketId \notin DOMAIN rooms[r].viewers

(***************************************************************************)
(* C3  Viewer cap.  Every room has at most MAX_VIEWERS_PER_ROOM viewers;   *)
(* a join-room on a room with a streamer is rejected as full exactly when  *)
(* viewers.size has reached the maximum, and then leaves rooms (viewers,   *)
(* stats) and socketToRoom unchanged; otherwise it is accepted and the     *)
(* caller is a viewer.                                                     *)
(***************************************************************************)
C3_Step ==
  /\ \A r \in DOMAIN rooms' : ViewersSize(rooms'[r]) <= MAX_VIEWERS_PER_ROOM
  /\ (/\ last'.op = "join-room"
      /\ last'.roomId \in DOMAIN rooms
      /\ rooms[last'.roomId].streamer # Null) =>
       LET r == last'.roomId
       IN IF ViewersSize(rooms[r]) >= MAX_VIEWERS_PER_ROOM
          THEN /\ ~last'.result.success
               /\ last'.result.error = "Room is full"
               /\ rooms' = rooms
               /\ socketToRoom' = socketToRoom
          ELSE /\ last'.result.success
               /\ last'.socket \in DOMAIN rooms'[r].viewers
               /\ last'.result.viewerCount = ViewersSize(rooms'[r])
C3_ViewerCap == [][C3_Step]_vars

\* as many admissions as the room has places, and then a join by one more,
\* distinct connection is rejected
C3_Witness ==
  /\ last.op = "join-room"
  /\ ~last.result.success
  /\ last.result.error = "Room is full"
  /\ ~IsViewer(last.socket, last.roomId)
  /\ ViewersSize(rooms[last.roomId]) = MAX_VIEWERS_PER_ROOM
  /\ rooms[last.roomId].stats.totalViewers = MAX_VIEWERS_PER_ROOM

(***************************************************************************)
(* C4  Room garbage collection on disconnect.  After a disconnect, every   *)
(* room the socket was bound to or a member of is either absent from rooms *)
(* or still has a streamer or a viewer: a room the disconnect has emptied  *)
(* is deleted in the same step.                                            *)
(***************************************************************************)
C4_Step ==
  last'.op = "disconnect" =>
    LET s == last'.socket
    IN \A r \in DOMAIN rooms :
         (IsMember(s, r) \/ (s \in DOMAIN socketToRoom /\ socketToRoom[s] = r)) =>
           r \notin DOMAIN rooms' \/ ~IsEmpty(rooms'[r])
C4_RoomCollected == [][C4_Step]_vars

\* the streamer has disconnected and now the sole viewer has: the room is gone
C4_Witness ==
  /\ last.op = "disconnect"
  /\ last.result # Null
  /\ last.result.role = "viewer"
  /\ last.result.viewerCount = 0
  /\ last.result.roomId \notin DOMAIN rooms
  /\ disconnected \ {last.socket} # {}

(***************************************************************************)
(* C5  No leaked room.  Every room in the registry has been named in a     *)
(* join-room or start-stream by some connection that is still connected.   *)
(***************************************************************************)
C5_NoLeakedRoom ==
  \A r \in DOMAIN rooms : \E s \in Sockets \ disconnected : r \in touched[s]

(***************************************************************************)
(* C6  No stale member.  A connection whose disconnect has been processed  *)
(* is neither the streamer nor a viewer of any room.                       *)
(***************************************************************************)
C6_NoStaleMember ==
  \A s \in disconnected : \A r \in DOMAIN rooms : ~IsMember(s, r)

(***************************************************************************)
(* C7  Reverse-map invariant.  A connection id has an entry in             *)
(* socketToRoom iff it is the streamer or a viewer of some room, and then  *)
(* it is a member of exactly the room the entry names.                     *)
(***************************************************************************)
C7_ReverseMap ==
  \A s \in Sockets :
    /\ s \in DOMAIN socketToRoom <=> RoomsOf(s) # {}
    /\ s \in DOMAIN socketToRoom => RoomsOf(s) = {socketToRoom[s]}

(***************************************************************************)
(* C8  One room per connection.  Each connection id is the streamer or a   *)
(* viewer of at most one room.                                             *)
(***************************************************************************)
C8_OneRoomPerConnection ==
  \A s \in Sockets : Cardinality(RoomsOf(s)) <= 1

(***************************************************************************)
(* C9  Offer authorization.  An offer reaches its target only when the     *)
(* sender is the current streamer of its room.                             *)
(***************************************************************************)
C9_OfferAuthorized ==
  (last.op = "offer" /\ Delivered("offer") # {}) =>
    /\ last.socket \in DOMAIN socketToRoom
    /\ IsStreamer(last.socket, socketToRoom[last.socket])

(***************************************************************************)
(* C10  Answer / ice-candidate membership.  An answer or ice-candidate     *)
(* reaches its target only when the sender is the streamer or a viewer of  *)
(* a room.                                                                 *)
(***************************************************************************)
C10_RelayByMember ==
  (last.op \in {"answer", "ice-candidate"} /\ Delivered(last.op) # {}) =>
    RoomsOf(last.socket) # {}

(***************************************************************************)
(* C11  Relay is a pure pass-through.  Each forwarded offer, answer or     *)
(* ice-candidate is delivered to exactly the named target connection (when *)
(* it is connected) and to no other connection, carries the payload        *)
(* unchanged together with the id of the connection that sent it, and      *)
(* leaves rooms, socketToRoom and messageRateLimits unchanged.             *)
(***************************************************************************)
RelayKinds == {"offer", "answer", "ice-candidate"}
C11_Step ==
  last'.op \in RelayKinds =>
    /\ Len(out') = 1
    /\ out'[1].ev = last'.op
    /\ out'[1].to = {last'.target} \ disconnected
    /\ out'[1].data = [payload |-> last'.payload, from |-> last'.socket]
    /\ UNCHANGED <<rooms, socketToRoom, messageRateLimits>>
C11_RelayPassThrough == [][C11_Step]_vars

(***************************************************************************)
(* C12  Stale-target tolerance.  A relayed offer, answer or ice-candidate  *)
(* whose target connection has already disconnected is delivered to no     *)
(* connection, sends no error to the sender and changes no state.          *)
(***************************************************************************)
C12_Step ==
  (last'.op \in RelayKinds /\ last'.target \in disconnected) =>
    /\ \A i \in 1..Len(out') : out'[i].to = {} /\ out'[i].ev # "error"
    /\ UNCHANGED <<rooms, socketToRoom, messageRateLimits, joined, disconnected>>
C12_StaleTarget == [][C12_Step]_vars

(***************************************************************************)
(* C13  Chat bound and order.  A room's messages never has more than       *)
(* MAX_MESSAGES_PER_ROOM entries, and every step keeps it the most recent  *)
(* accepted messages in acceptance order: an accepted chat message is      *)
(* appended at the end, the oldest entry is evicted from the front when    *)
(* the cap is exceeded, and nothing else changes the log of a room.        *)
(***************************************************************************)
AcceptedChat(r) ==
  /\ last'.op = "chat-message"
  /\ last'.roomId = r
  /\ last'.result.success
C13_Step ==
  \A r \in DOMAIN rooms' :
    LET before == IF r \in DOMAIN rooms THEN rooms[r].messages ELSE << >>
        accepted == IF AcceptedChat(r)
                    THEN Append(before, last'.result.message) ELSE before
    IN /\ Len(rooms'[r].messages) <= MAX_MESSAGES_PER_ROOM
       /\ rooms'[r].messages = LastN(accepted, MAX_MESSAGES_PER_ROOM)
C13_ChatBoundAndOrder == [][C13_Step]_vars

\* more messages were accepted than the log holds: the log is full, its
\* newest entry is the message just accepted and the oldest entry is gone
C13_Witness ==
  /\ last.op = "chat-message"
  /\ last.result.success
  /\ LET room == rooms[last.roomId]
     IN /\ room.stats.messagesCount > MAX_MESSAGES_PER_ROOM
        /\ Len(room.messages) = MAX_MESSAGES_PER_ROOM
        /\ room.messages[MAX_MESSAGES_PER_ROOM] = last.result.message
        /\ room.messages[1].timestamp > StartTime

(***************************************************************************)
(* C14  Rate limiting.  A chat message of a connection for an existing     *)
(* room is rejected as too fast exactly when it arrives less than          *)
(* MESSAGE_RATE_LIMIT ms after that connection's previous accepted         *)
(* message, whatever the room of either message and whatever other         *)
(* connections have sent.                                                  *)
(***************************************************************************)
TooFast(result) ==
  ~result.success /\ result.error = "Sending messages too quickly"
C14_Step ==
  (last'.op = "chat-message" /\ last'.roomId \in DOMAIN rooms) =>
    LET s == last'.socket
    IN TooFast(last'.result) <=>
         /\ s \in DOMAIN lastAccepted
         /\ now - lastAccepted[s] < MESSAGE_RATE_LIMIT
C14_RateLimit == [][C14_Step]_vars

(***************************************************************************)
(* C15  Stored message body.  Every message in any room's log has a body   *)
(* that is non-empty, at most MaxMessageLength (500 in the code)           *)
(* characters long and free of '<' and '>', for every raw input body.      *)
(***************************************************************************)
C15_StoredBody ==
  \A r \in DOMAIN rooms :
    \A i \in 1..Len(rooms[r].messages) :
      LET body == rooms[r].messages[i].message
      IN /\ body # << >>
         /\ Len(body) <= MaxMessageLength
         /\ \A k \in 1..Len(body) : body[k] \notin {"<", ">"}

(***************************************************************************)
(* C16  Rejected chat append.  A chat message that is rejected (room not   *)
(* found, too fast, or empty after sanitizing) is not stored and not       *)
(* broadcast and leaves every room (messages, stats.messagesCount)         *)
(* unchanged; an accepted one appends exactly one message at the end of    *)
(* the room's log, increments messagesCount by exactly one and is the      *)
(* message that is broadcast to the room.                                  *)
(***************************************************************************)
C16_Step ==
  last'.op = "chat-message" =>
    LET r == last'.roomId
        res == last'.result
    IN IF res.success
       THEN /\ r \in DOMAIN rooms
            /\ rooms'[r].messages =
                 LastN(Append(rooms[r].messages, res.message),
                       MAX_MESSAGES_PER_ROOM)
            /\ rooms'[r].stats.messagesCount =
                 rooms[r].stats.messagesCount + 1
            /\ \A q \in DOMAIN rooms \ {r} : rooms'[q] = rooms[q]
            /\ out' = <<[ev |-> "chat-message",
                         to |-> InRoom(joined, disconnected, r),
                         data |-> res.message]>>
       ELSE /\ res.error \in {"Room not found", "Empty message",
                              "Sending messages too quickly"}
            /\ res.error = "Room not found" <=> r \notin DOMAIN rooms
            /\ rooms' = rooms
            /\ out' = <<[ev |-> "error", to |-> {last'.socket},
                         data |-> [message |-> res.error]]>>
C16_RejectedAppend == [][C16_Step]_vars

\* a message that is empty after sanitizing was rejected on a room whose log
\* holds an accepted message: the sender alone was answered
C16_Witness ==
  /\ last.op = "chat-message"
  /\ ~last.result.success
  /\ last.result.error = "Empty message"
  /\ rooms[last.roomId].stats.messagesCount = 1
  /\ Len(rooms[last.roomId].messages) = 1
  /\ Delivered("error") = {last.socket}
  /\ Delivered("chat-message") = {}
  /\ InRoom(joined, disconnected, last.roomId) \ {last.socket} # {}

(***************************************************************************)
(* C17  History on join.  The chat-history sent to a newly admitted viewer *)
(* and to a connection whose start-stream was accepted is the room's most  *)
(* recent min(HistoryLimit, log length) messages, oldest first, and        *)
(* sending it does not change the log.                                     *)
(***************************************************************************)
C17_Step ==
  (/\ last'.op \in {"join-room", "start-stream"}
   /\ last'.result.success
   /\ last'.result.role \in {"viewer", "streamer"}) =>
    LET r == last'.roomId
        log == IF r \in DOMAIN rooms THEN rooms[r].messages ELSE << >>
    IN /\ \E i \in 1..Len(out') :
            out'[i] = [ev |-> "chat-history", to |-> {last'.socket},
                       data |-> LastN(log, HistoryLimit)]
       /\ rooms'[r].messages = log
C17_HistoryOnJoin == [][C17_Step]_vars

(***************************************************************************)
(* C18  Chat fan-out.  Every accepted chat message for a room is delivered *)
(* to every connected socket that is the room's streamer or one of its     *)
(* viewers, whether the streamer sent join-room before start-stream or     *)
(* start-stream alone.                                                     *)
(***************************************************************************)
C18_ChatFanOut ==
  (last.op = "chat-message" /\ last.result.success) =>
    \A s \in Sockets \ disconnected :
      IsMember(s, last.roomId) => s \in Delivered("chat-message")

(***************************************************************************)
(* C19  Join without a streamer.  A join-room on a room that has no        *)
(* streamer answers the caller with role awaiting-stream and leaves the    *)
(* room's streamer slot, viewers and stats (those of a new room if the     *)
(* join created it), every other room and socketToRoom unchanged; and no   *)
(* step inserts a connection into the viewers of a room that has no        *)
(* streamer.                                                               *)
(***************************************************************************)
C19_Step ==
  /\ (/\ last'.op = "join-room"
      /\ last'.roomId \in DOMAIN rooms => rooms[last'.roomId].streamer = Null) =>
       LET r == last'.roomId
       IN /\ last'.result = [success |-> TRUE, role |-> "awaiting-stream"]
          /\ out' = <<[ev |-> "role-assigned", to |-> {last'.socket},
                       data |-> [role |-> "awaiting-stream", roomId |-> r]]>>
          /\ rooms' = IF r \in DOMAIN rooms THEN rooms
                      ELSE MapSet(rooms, r, NewRoom)
          /\ socketToRoom' = socketToRoom
  /\ \A r \in DOMAIN rooms' :
       \A s \in DOMAIN rooms'[r].viewers :
         (r \notin DOMAIN rooms \/ s \notin DOMAIN rooms[r].viewers) =>
           /\ r \in DOMAIN rooms
           /\ rooms[r].streamer # Null
           /\ rooms'[r].streamer # Null
C19_JoinWithoutStreamer == [][C19_Step]_vars

\* a join-room on a room that the streamer has left and that still has a
\* viewer: the caller awaits a stream and is neither viewer nor bound
C19_Witness ==
  /\ last.op = "join-room"
  /\ last.result.success
  /\ last.result.role = "awaiting-stream"
  /\ rooms[last.roomId].streamer = Null
  /\ ViewersSize(rooms[last.roomId]) > 0
  /\ ~IsViewer(last.socket, last.roomId)
  /\ last.socket \notin DOMAIN socketToRoom

(***************************************************************************)
(* C20  Rejected join leaves no binding.  After a join-room by a           *)
(* connection that had no binding to the room is rejected because the room *)
(* is full, the connection is not in viewers, has no socketToRoom entry    *)
(* and is not in the room's broadcast group (the socket.io room that       *)
(* viewer-count-update, chat-message and stream-ended are sent to).        *)
(***************************************************************************)
C20_Step ==
  LET s == last'.socket
      r == last'.roomId
  IN (/\ last'.op = "join-room"
      /\ ~last'.result.success
      /\ last'.result.error = "Room is full"
      /\ ~IsMember(s, r)
      /\ s \notin DOMAIN socketToRoom
      /\ r \notin joined[s]) =>
       /\ s \notin DOMAIN rooms'[r].viewers
       /\ s \notin DOMAIN socketToRoom'
       /\ s \notin InRoom(joined', disconnected', r)
C20_RejectedJoinUnbound == [][C20_Step]_vars

(***************************************************************************)
(* C21  Rejections go to the caller only.  Whenever the join-room,         *)
(* start-stream or chat-message handler rejects an event, what the event   *)
(* emits is exactly one error notification, carrying the reason, to the    *)
(* connection that sent the event.                                         *)
(***************************************************************************)
Reason(result) ==
  IF result.error = "invalid" THEN "Room ID and username are required"
  ELSE result.error
C21_RejectionToCaller ==
  (/\ last.op \in {"join-room", "start-stream", "chat-message"}
   /\ ~last.result.success) =>
    out = <<[ev |-> "error", to |-> {last.socket},
             data |-> [message |-> Reason(last.result)]]>>

\* a start-stream was rejected while another connection is in the room's
\* broadcast group: the caller alone was told
C21_Witness ==
  /\ last.op = "start-stream"
  /\ ~last.result.success
  /\ InRoom(joined, disconnected, last.roomId) \ {last.socket} # {}
  /\ Delivered("error") = {last.socket}
  /\ Len(out) = 1

(***************************************************************************)
(* C22  Stop-broadcast authority and effect.  A stop-stream from a         *)
(* connection that is not the room's current streamer changes no state and *)
(* emits nothing; a stop-stream from the current streamer empties the      *)
(* streamer slot, broadcasts stream-ended to the room, and leaves the      *)
(* viewers, the stats and the room itself in place; a start-stream on a    *)
(* room whose slot is empty is accepted.                                   *)
(***************************************************************************)
C22_Step ==
  /\ last'.op = "stop-stream" =>
       LET s == last'.socket
           r == last'.roomId
       IN /\ UNCHANGED <<socketToRoom, messageRateLimits, joined>>
          /\ IF IsStreamer(s, r)
             THEN /\ rooms' = [rooms EXCEPT ![r].streamer = Null]
                  /\ out' = <<[ev |-> "stream-ended",
                               to |-> InRoom(joined, disconnected, r),
                               data |-> [message |-> "The stream has ended"]]>>
             ELSE /\ rooms' = rooms
                  /\ out' = << >>
  /\ (/\ last'.op = "start-stream"
      /\ last'.roomId \in DOMAIN rooms
      /\ rooms[last'.roomId].streamer = Null) =>
       /\ last'.result.success
       /\ rooms'[last'.roomId].streamer.socketId = last'.socket
C22_StopStream == [][C22_Step]_vars

\* s1 has stopped its stream (it is connected and still bound, but holds no
\* role), a viewer stayed, and the start-stream of s2 was accepted
C22_Witness ==
  /\ last.op = "start-stream"
  /\ last.result.success
  /\ last.socket = "s2"
  /\ "s1" \notin disconnected
  /\ "s1" \in DOMAIN socketToRoom
  /\ socketToRoom["s1"] = last.roomId
  /\ ~IsMember("s1", last.roomId)
  /\ ViewersSize(rooms[last.roomId]) > 0

(***************************************************************************)
(* C23  Stop-broadcast destroys an empty room.  After a stop-stream or a   *)
(* disconnect, no room that the event has left with an empty streamer slot *)
(* and no viewers remains in rooms: a room the event has emptied is        *)
(* removed in the same step.                                               *)
(***************************************************************************)
C23_Step ==
  last'.op \in {"stop-stream", "disconnect"} =>
    \A r \in DOMAIN rooms' :
      IsEmpty(rooms'[r]) => r \in DOMAIN rooms /\ IsEmpty(rooms[r])
C23_EmptyRoomDestroyed == [][C23_Step]_vars

(***************************************************************************)
(* C24  Unconditional purge on disconnect.  A connection whose disconnect  *)
(* has been processed has no entry in socketToRoom and none in             *)
(* messageRateLimits, whatever role, binding or room it had.               *)
(***************************************************************************)
C24_PurgedOnDisconnect ==
  \A s \in disconnected :
    s \notin DOMAIN socketToRoom /\ s \notin DOMAIN messageRateLimits

(***************************************************************************)
(* C25  Stats are monotonic.  While a room stays in rooms, none of         *)
(* stats.totalViewers, stats.peakViewers and stats.messagesCount           *)
(* decreases; each accepted viewer admission adds one to totalViewers and  *)
(* sets peakViewers to the maximum of its old value and the new            *)
(* viewers.size.                                                           *)
(***************************************************************************)
C25_Step ==
  /\ \A r \in DOMAIN rooms \cap DOMAIN rooms' :
       /\ rooms'[r].stats.totalViewers >= rooms[r].stats.totalViewers
       /\ rooms'[r].stats.peakViewers >= rooms[r].stats.peakViewers
       /\ rooms'[r].stats.messagesCount >= rooms[r].stats.messagesCount
  /\ (/\ last'.op = "join-room"
      /\ last'.result.success
      /\ last'.result.role = "viewer") =>
       LET r == last'.roomId
       IN /\ rooms'[r].stats.totalViewers = rooms[r].stats.totalViewers + 1
          /\ rooms'[r].stats.peakViewers =
               Max(rooms[r].stats.peakViewers, ViewersSize(rooms'[r]))
C25_StatsMonotonic == [][C25_Step]_vars

\* an admission into a room that has had more viewers at once than it has
\* now, and that holds a chat message: the peak stays above the size
C25_Witness ==
  /\ last.op = "join-room"
  /\ last.result.success
  /\ last.result.role = "viewer"
  /\ LET room == rooms[last.roomId]
     IN /\ room.stats.peakViewers > ViewersSize(room)
        /\ room.stats.totalViewers > room.stats.peakViewers
        /\ room.stats.messagesCount > 0

(***************************************************************************)
(* C26  Clear-chat authority (handleChat of part_002).  A clear-chat event *)
(* empties the room's message log and broadcasts chat-cleared to the room  *)
(* only when the sender is the room's current streamer; sent by any other  *)
(* connection, or for a room that does not exist, it changes nothing and   *)
(* emits nothing.                                                          *)
(***************************************************************************)
C26_Step ==
  last'.op = "clear-chat" =>
    LET s == last'.socket
        r == last'.roomId
    IN IF r \in DOMAIN rooms /\ rooms[r].streamerId = s
       THEN /\ rooms' = [rooms EXCEPT ![r].messages = << >>]
            /\ out' = <<[ev |-> "chat-cleared",
                         to |-> InRoom(joined, disconnected, r),
                         data |-> Null]>>
       ELSE /\ rooms' = rooms
            /\ out' = << >>
C26_ClearChatAuthority == [][C26_Step]_vars

\* a clear-chat by a connection other than the streamer has left a log
\* with a message in it as it was
C26_Witness ==
  /\ last.op = "clear-chat"
  /\ ~last.result.success
  /\ last.roomId \in DOMAIN rooms
  /\ ~Falsy(rooms[last.roomId].streamerId)
  /\ rooms[last.roomId].streamerId # last.socket
  /\ Len(rooms[last.roomId].messages) > 0
  /\ out = << >>

(***************************************************************************)
(* C27  Cooldown counts accepted messages only.  The time stamp that the   *)
(* rate limit of a connection is measured from is the time of its last     *)
(* accepted message: a chat message that is rejected, as too fast or as    *)
(* empty after sanitizing, leaves messageRateLimits unchanged.             *)
(***************************************************************************)
C27_Step ==
  /\ (last'.op = "chat-message" /\ ~last'.result.success) =>
       messageRateLimits' = messageRateLimits
  /\ \A s \in DOMAIN messageRateLimits' :
       /\ s \in DOMAIN lastAccepted'
       /\ messageRateLimits'[s] = lastAccepted'[s]
C27_CooldownFromAccepted == [][C27_Step]_vars

(***************************************************************************)
(* C28  Reverse map never dangles.  Every room id in the range of          *)
(* socketToRoom is a key of rooms.                                         *)
(***************************************************************************)
C28_NoDanglingBinding ==
  \A s \in DOMAIN socketToRoom : socketToRoom[s] \in DOMAIN rooms

(***************************************************************************)
(* C29  Validation before mutation.  A join-room, start-stream or          *)
(* chat-message that lacks its room id or its username is rejected, and    *)
(* rooms, socketToRoom and messageRateLimits are as they were: no room is  *)
(* created and no slot is filled.                                          *)
(***************************************************************************)
C29_Step ==
  (/\ last'.op \in {"join-room", "start-stream", "chat-message"}
   /\ Falsy(last'.roomId) \/ Falsy(last'.username)) =>
    /\ ~last'.result.success
    /\ UNCHANGED <<rooms, socketToRoom, messageRateLimits>>
C29_ValidationFirst == [][C29_Step]_vars

(***************************************************************************)
(* C30  Viewer departure notifications.  When a connection that is a       *)
(* viewer of a room disconnects, the streamer of that room (if the slot is *)
(* filled) receives viewer-left and the viewers that stay receive          *)
(* viewer-count-update, both with the number of viewers left; every viewer *)
(* count in role-assigned, viewer-joined and viewer-count-update is the    *)
(* size of viewers of the room of the event when it is emitted; the        *)
(* disconnect of a connection that holds no role emits nothing.            *)
(***************************************************************************)
\* the viewer count an emission carries, -1 when it carries none
CountOf(e) ==
  IF e.ev = "viewer-count-update" THEN e.data.count
  ELSE IF e.ev = "viewer-joined" THEN e.data.viewerCount
  ELSE IF e.ev = "role-assigned" /\ e.data.role = "viewer"
       THEN e.data.viewerCount
  ELSE -1
\* viewers.size of a room after the step; a room that was deleted has none
SizeAfter(r) == IF r \in DOMAIN rooms' THEN ViewersSize(rooms'[r]) ELSE 0
C30_Departure(s, r) ==
  LET size == Cardinality(DOMAIN rooms[r].viewers \ {s})
  IN /\ (r \in DOMAIN rooms' /\ rooms'[r].streamer # Null) =>
          \E i \in 1..Len(out') :
            /\ out'[i].ev = "viewer-left"
            /\ rooms'[r].streamer.socketId \in out'[i].to
            /\ out'[i].data.viewerCount = size
     /\ \E i \in 1..Len(out') :
          /\ out'[i].ev = "viewer-count-update"
          /\ out'[i].data.count = size
          /\ (DOMAIN rooms[r].viewers \ (disconnected' \cup {s})) \subseteq out'[i].to
C30_Step ==
  /\ last'.op = "disconnect" =>
       /\ \A r \in DOMAIN rooms :
            IsViewer(last'.socket, r) => C30_Departure(last'.socket, r)
       /\ (\A r \in DOMAIN rooms : ~IsMember(last'.socket, r)) => out' = << >>
  /\ last'.op \in {"join-room", "disconnect"} =>
       \A i \in 1..Len(out') :
         CountOf(out'[i]) # -1 =>
           CountOf(out'[i]) =
             SizeAfter(IF last'.op = "join-room" THEN last'.roomId
                       ELSE last'.result.roomId)
C30_DepartureNotified == [][C30_Step]_vars

(***************************************************************************)
(* C35  Streamer disconnect keeps the viewers.  When the streamer of a     *)
(* room that has viewers disconnects (the room its socketToRoom entry      *)
(* names), the room stays in rooms with no                                 *)
(* streamer and the same viewers, stream-ended and a system chat message   *)
(* go to the room, and a start-stream that another connection sends for    *)
(* that room right after is accepted.                                      *)
(***************************************************************************)
\* some emission of the step is the event ev and reaches every socket of to
SentTo(ev, to) ==
  \E i \in 1..Len(out') : out'[i].ev = ev /\ to \subseteq out'[i].to
C35_Step ==
  /\ last'.op = "disconnect" =>
       \A r \in DOMAIN rooms :
         (/\ IsStreamer(last'.socket, r)
          /\ last'.socket \in DOMAIN socketToRoom
          /\ socketToRoom[last'.socket] = r
          /\ ViewersSize(rooms[r]) > 0) =>
           /\ r \in DOMAIN rooms'
           /\ rooms'[r].streamer = Null
           /\ rooms'[r].viewers = rooms[r].viewers
           /\ SentTo("stream-ended", DOMAIN rooms[r].viewers \ disconnected')
           /\ \E i \in 1..Len(out') :
                /\ out'[i].ev = "chat-message"
                /\ out'[i].data.system
                /\ (DOMAIN rooms[r].viewers \ disconnected') \subseteq out'[i].to
  /\ (/\ last.op = "disconnect"
      /\ last.result # Null
      /\ last.result.role = "streamer"
      /\ last'.op = "start-stream"
      /\ last'.roomId = last.result.roomId) =>
       /\ last'.result.success
       /\ rooms'[last'.roomId].streamer.socketId = last'.socket
C36_StatsOrdering ==
  \A r \in DOMAIN rooms :
    /\ rooms[r].stats.totalViewers >= rooms[r].stats.peakViewers
    /\ rooms[r].stats.peakViewers >= ViewersSize(rooms[r])
    /\ rooms[r].stats.messagesCount >= Len(rooms[r].messages)
\* a room where the three inequalities are strict
C36_Witness ==
  \E r \in DOMAIN rooms :
    /\ rooms[r].stats.totalViewers > rooms[r].stats.peakViewers
    /\ rooms[r].stats.peakViewers > ViewersSize(rooms[r])
    /\ ViewersSize(rooms[r]) > 0
    /\ rooms[r].stats.messagesCount > Len(rooms[r].messages)

(***************************************************************************)
(* C37  Join idempotence.  A join-room sent by a connection that is        *)
(* already a viewer of the room leaves the room's viewers and its          *)
(* stats.totalViewers and stats.peakViewers as they were.                  *)
(***************************************************************************)
C37_Step ==
  (/\ last'.op = "join-room"
   /\ IsViewer(last'.socket, last'.roomId)) =>
    /\ last'.roomId \in DOMAIN rooms'
    /\ DOMAIN rooms'[last'.roomId].viewers = DOMAIN rooms[last'.roomId].viewers
    /\ rooms'[last'.roomId].stats.totalViewers =
         rooms[last'.roomId].stats.totalViewers
    /\ rooms'[last'.roomId].stats.peakViewers =
         rooms[last'.roomId].stats.peakViewers
C37_JoinIdempotent == [][C37_Step]_vars

(***************************************************************************)
(* C38  Chat membership.  A chat message is appended to a room's log and   *)
(* broadcast only when its sender is the streamer or a viewer of that room *)
(* at that moment: a step of a connection with no role in the room leaves  *)
(* the room's messages as they were.                                       *)
(***************************************************************************)
C38_Step ==
  (/\ last'.op = "chat-message"
   /\ last'.roomId \in DOMAIN rooms
   /\ ~IsMember(last'.socket, last'.roomId)) =>
    /\ ~last'.result.success
    /\ rooms'[last'.roomId].messages = rooms[last'.roomId].messages
C38_MembersOnly == [][C38_Step]_vars

(***************************************************************************)
(* C34  Chat cap with system messages (src/unnamed/part_002).  After any   *)
(* sequence of chat-message and system-message events the log of a room    *)
(* has at most MAX_MESSAGES_PER_ROOM entries.                              *)
(***************************************************************************)
C34_LogCapped ==
  \A r \in DOMAIN rooms : Len(rooms[r].messages) <= MAX_MESSAGES_PER_ROOM

(***************************************************************************)
(* C39  Cleanup in the first-joiner server (src/claude-4-5/small).  A      *)
(* connection whose disconnect was processed is neither streamer nor an    *)
(* entry of viewers of any room, no connection is streamer and viewer of   *)
(* one room, and no room without streamer and viewers stays in rooms.      *)
(***************************************************************************)
C39_SmallCleanup ==
  \A r \in DOMAIN rooms :
    /\ \A s \in disconnected : r \notin findRoomBySocket(rooms, s)
    /\ rooms[r].streamer # Null =>
         ViewerIndexes(rooms[r], rooms[r].streamer.socketId) = {}
    /\ ~(rooms[r].streamer = Null /\ Len(rooms[r].viewers) = 0)

(***************************************************************************)
(* C31  State before external write (src/server.js).  Once stream-ended    *)
(* was broadcast for a room, by the streamer's disconnect or end-stream,   *)
(* a join-room for that room is not admitted: the joiner is not added to   *)
(* the viewers of the room and is not answered with joined-as-viewer,      *)
(* whether or not the handler that ended the stream has resumed.           *)
(***************************************************************************)
\* stream-ended was broadcast for the room by its streamer, whose handler
\* is waiting for the store
StreamEnded(roomId) ==
  \E k \in pending :
    /\ k.handler \in {"disconnect", "end-stream"}
    /\ k.roomId = roomId
    /\ RoomIsStreamer(rooms, roomId, k.socket)
C31_Step ==
  (/\ last'.op = "join-room"
   /\ ~last'.isStreamer
   /\ StreamEnded(last'.roomId)) =>
    /\ ~last'.result.success
    /\ \A i \in 1..Len(out') : out'[i].ev # "joined-as-viewer"
    /\ rooms'[last'.roomId].viewers = rooms[last'.roomId].viewers
C31_NoJoinAfterEnd == [][C31_Step]_vars

(***************************************************************************)
(* C33  Room-scoped broadcast ordering (src/server.js).  The viewer counts *)
(* that the viewer-count-update broadcasts of accepted joins and viewer    *)
(* disconnects carry are, in the order of the broadcasts, the viewer       *)
(* counts those mutations produced in the order they were applied: at any  *)
(* moment the counts broadcast so far are the first of the counts          *)
(* produced so far.                                                        *)
(***************************************************************************)
IsPrefix(a, b) == Len(a) <= Len(b) /\ a = SubSeq(b, 1, Len(a))
C33_BroadcastOrder == IsPrefix(observed, applied)

(***************************************************************************)
(* C32  No double streamer under concurrent claims (src/unnamed/part_003). *)
(* For every interleaving of the start-stream handlers of two users at     *)
(* their await points, the streamer slot of a room is never given to       *)
(* another connection while it names a connected socket whose stream is    *)
(* active (it has neither stopped nor disconnected).                       *)
(***************************************************************************)
C32_Step ==
  \A r \in DOMAIN rooms \cap DOMAIN rooms' :
    (/\ rooms[r].streamer # Missing
     /\ rooms[r].streamer \notin disconnected
     /\ rooms[r].streamActive) =>
      rooms'[r].streamer \in {rooms[r].streamer, Missing}
C32_NoDoubleStreamer == [][C32_Step]_vars

====
